---- MODULE Spec2Model ----
(***************************************************************************)
(* State-machine model of the canikona results pipeline:                   *)
(*   - the two-tier result cache (parse_live_data.get_processed_results_   *)
(*     cached over cache_utils),                                           *)
(*   - the per-race adjustment-version lock (adjustments.py),              *)
(*   - the dynamic slot calculator and its persistence (parse_live_data).  *)
(* Each subsystem has its own specification; a specification pins the      *)
(* variables of the other subsystems to their initial values.              *)
(***************************************************************************)
EXTENDS Integers, Sequences, FiniteSets, TLC

VARIABLES
    \* ---- result cache (get_processed_results_cached) ----
    clock,      \* index of the current instant on the time grid
    race,       \* the race the requests are about
    files,      \* cache files: path -> file state
    ioFaults,   \* whether the file system may fail a write (environment)
    pc,         \* per request: position inside get_processed_results_cached
    gen,        \* per request: effective_gender
    stage,      \* per request: tier chosen by final_ready
    data,       \* per request: the local `data` (the return value at "done")
    fetches,    \* per request: grader invocations made by this call
    hit,        \* per request: the call is served from a cache entry
    writes,     \* per request: file modifications made by this call
    observed,   \* per request: raw state of the file seen by its last read
    \* ---- adjustment-version lock (adjustments.py) ----
    manifestDisk,   \* adjustments/manifest.json: the sequence of versions
    assignDisk,     \* data/ag_assignments.json: race key -> version id
    manifestCache,  \* _manifest_cache
    assignCache,    \* _assignments_cache
    adjOut,         \* outcome of the get_adjustments_for_race call, until
                    \* the caller has taken it
    \* ---- dynamic slots (parse_live_data.py) ----
    dynClock,   \* index of the current instant on the dynamic-slot time grid
    dynRace,    \* the in-memory race object
    dynDisk,    \* data/dynamic_slots.json: race key -> entry
    dynCache,   \* _dynamic_cache_data
    dynOut,     \* outcome of the running dynamic-slot call, until the caller
                \* has taken it
    dynCall,    \* the running dynamic-slot call: the function, and what the
                \* upstream start lists answered if it requested them
    \* ---- slot policy (slot_policy.py) ----
    polRace,    \* the race handed to resolve_slot_policy
    polOut,     \* what resolve_slot_policy returned for it
    \* ---- grading (parse_live_data.process_live_results) ----
    plrIn,      \* raw_data_list: the athlete records of the feed
    plrOut,     \* outcome of process_live_results on it
    \* ---- slot annotation (parse_live_data.annotate_slot_allocation) ----
    annArgs,    \* race_obj and selected_gender of the running call
    annOut,     \* outcome of annotate_slot_allocation on plrOut's list
    \* ---- concurrent split-dynamic requests (app.py over parse_live_data) ----
    reqPc,      \* per request thread: position inside its request
    reqLocal,   \* per request thread: the locals of its running calls
    \* ---- grading of the upstream feeds (parse_live_data.get_processed_results) ----
    gprArgs,    \* race, gender and what the two feeds answer to the running call
    gprOut,     \* outcome of get_processed_results, with the feeds it fetched
    \* ---- workers resolving adjustments over one assignment file ----
    wkKeys,     \* keys of the races the workers are asked about
    wkFs,       \* directory: ag_assignments.json and its .tmp -> file, 0 if none
    wkInode,    \* content of each file, by halves
    wkFd,       \* per worker: the file its open handle writes to, 0 if none
    wkPc,       \* per worker: position inside get_adjustments_for_race
    wkKey,      \* per worker: key of the race of its running call
    wkMem,      \* per worker: its _assignments_cache
    wkRet,      \* per worker: outcome of its last completed call
    wkPersisted \* history: the assignments the file has held as a whole document

cacheVars == <<clock, race, files, ioFaults, pc, gen, stage, data, fetches,
               hit, writes, observed>>

adjVars == <<manifestDisk, assignDisk, manifestCache, assignCache, adjOut>>

dynVars == <<dynClock, dynRace, dynDisk, dynCache, dynOut, dynCall>>

polVars == <<polRace, polOut>>

\* Variables of the pure-function models.
plrVars == <<plrIn, plrOut>>
annVars == <<annArgs, annOut>>
reqVars == <<reqPc, reqLocal>>
gprVars == <<gprArgs, gprOut>>
wkVars == <<wkKeys, wkFs, wkInode, wkFd, wkPc, wkKey, wkMem, wkRet, wkPersisted>>
fnVars == <<polVars, plrVars, annVars, reqVars, gprVars, wkVars>>

vars == <<cacheVars, adjVars, dynVars, fnVars>>

\* What the actions of one subsystem leave alone.
nonCacheVars == <<adjVars, dynVars, fnVars>>
nonAdjVars == <<cacheVars, dynVars, fnVars>>
nonDynVars == <<cacheVars, adjVars, fnVars>>
nonPolVars == <<cacheVars, adjVars, dynVars, plrVars, annVars, reqVars, gprVars,
                wkVars>>
nonPlrVars == <<cacheVars, adjVars, dynVars, polVars, annVars, reqVars, gprVars,
                wkVars>>
nonGprVars == <<cacheVars, adjVars, dynVars, polVars, plrVars, annVars, reqVars,
                wkVars>>
nonWkVars == <<cacheVars, adjVars, dynVars, polVars, plrVars, annVars, reqVars,
               gprVars>>
\* annotate_slot_allocation reads the graded list and may run the dynamic
\* slot calculator
nonAnnVars == <<cacheVars, adjVars, polVars, reqVars, gprVars, wkVars>>
\* a request thread works on the race object and the persistence document
nonReqVars == <<cacheVars, adjVars, polVars, plrVars, annVars, dynClock, dynOut,
                dynCall, gprVars, wkVars>>

\* ------------------------------------------------------------------------
\* Bounds of the model
\* ------------------------------------------------------------------------
MaxClock == 3
MaxSnap == 2
MaxVersions == 2
MaxStart == 2
MaxRecords == 3
MaxSlots == 3
MaxFeed == 2

Procs == {"p1", "p2"}

\* ------------------------------------------------------------------------
\* Common values
\* ------------------------------------------------------------------------
NoneVal == [kind |-> "none"]
ErrorVal == [kind |-> "error"]
Genders == {"men", "women"}
NoGender == "none"
Stages == {"final", "in_progress"}

\* Dates are 'YYYY-MM-DD' strings, modelled as <<y, m, d>>; any other tuple is
\* a string strptime rejects.
parse_date(s) ==
    IF Len(s) = 3 THEN s[1] * 372 + s[2] * 31 + s[3]
    ELSE 1970 * 372 + 1 * 31 + 1

CACHE_FRESHNESS_SECONDS == 60
FINAL_CACHE_DELAY_HOURS == 24

\* ------------------------------------------------------------------------
\* slot_policy.py
\* ------------------------------------------------------------------------
AllowedPolicies == {"combined-fixed", "split-fixed", "split-dynamic"}

\* Values of race['slot_policy'] that are not strings: "none" is the missing
\* key (race.get gives None), "<list>" a JSON list.
NonStringPolicies == {"none", "<list>"}
isinstance_str(x) == x \notin NonStringPolicies

\* slots is a dict naming men or women (line 37); a dict is a record of kind
\* "map" whose other fields are its keys.
HasGenderSlots(slots) ==
    slots.kind = "map" /\ {"men", "women"} \cap DOMAIN slots # {}

\* Mutant: the structure of slots is looked at before the override.
resolve_slot_policy_structure_first(r) ==
    IF HasGenderSlots(r.slots) THEN "split-fixed"
    ELSE IF isinstance_str(r.slot_policy) /\ r.slot_policy \in AllowedPolicies
    THEN r.slot_policy
    ELSE IF r.distance = "140.6"
         THEN IF parse_date(r.date) >= parse_date(<<2025, 11, 14>>)
              THEN "split-dynamic" ELSE "combined-fixed"
    ELSE IF r.distance = "70.3" THEN "split-fixed"
    ELSE "combined-fixed"

\* Mutant: the boundary date itself still counts as before the change.
resolve_slot_policy_strict_boundary(r) ==
    IF isinstance_str(r.slot_policy) /\ r.slot_policy \in AllowedPolicies
    THEN r.slot_policy
    ELSE IF HasGenderSlots(r.slots) THEN "split-fixed"
    ELSE IF r.distance = "140.6"
         THEN IF parse_date(r.date) > parse_date(<<2025, 11, 14>>)
              THEN "split-dynamic" ELSE "combined-fixed"
    ELSE IF r.distance = "70.3" THEN "split-fixed"
    ELSE "combined-fixed"

resolve_slot_policy(r) ==
    IF isinstance_str(r.slot_policy) /\ r.slot_policy \in AllowedPolicies
    THEN r.slot_policy
    ELSE IF HasGenderSlots(r.slots) THEN "split-fixed"
    ELSE IF r.distance = "140.6"
         THEN IF parse_date(r.date) >= parse_date(<<2025, 11, 14>>)
              THEN "split-dynamic" ELSE "combined-fixed"
    ELSE IF r.distance = "70.3" THEN "split-fixed"
    ELSE "combined-fixed"

policy_needs_gender(policy) == policy \in {"split-fixed", "split-dynamic"}

\* ------------------------------------------------------------------------
\* Races served by the cache model
\* ------------------------------------------------------------------------
CacheRaces ==
    { [key |-> "IM703A", distance |-> "70.3", date |-> <<2025, 6, 1>>,
       slots |-> [kind |-> "map", men |-> 3, women |-> 2],
       slot_policy |-> "none", earliestStartTime |-> 1000000],
      [key |-> "IM140B", distance |-> "140.6", date |-> <<2025, 11, 13>>,
       slots |-> [kind |-> "int", n |-> 5],
       slot_policy |-> "none", earliestStartTime |-> 1000000],
      [key |-> "IM140C", distance |-> "140.6", date |-> <<2025, 11, 14>>,
       slots |-> [kind |-> "int", n |-> 5],
       slot_policy |-> "none", earliestStartTime |-> 1000000] }

\* ------------------------------------------------------------------------
\* cache_utils.py
\* ------------------------------------------------------------------------
get_cache_dir(distance, stg, gender) ==
    IF distance = "70.3"
    THEN <<"data", "70.3", IF gender \in Genders THEN gender ELSE "men", stg>>
    ELSE IF distance = "140.6" THEN <<"data", "140.6", stg>>
    ELSE <<"data", distance, stg>>

get_cache_file_path(r, stg, gender) ==
    get_cache_dir(r.distance, stg, gender) \o <<r.key>>

Paths ==
    { get_cache_file_path(r, s, g) :
        r \in CacheRaces, s \in Stages, g \in Genders \cup {NoGender} }

Absent == [kind |-> "absent"]
Partial(t) == [kind |-> "partial", mtime |-> t]
Doc(d, t) == [kind |-> "doc", doc |-> d, mtime |-> t]

\* json.dump of a result list: tuples ("unique_key") are written as arrays.
JsonDump(d) ==
    IF d.kind = "list"
    THEN [kind |-> "list", g |-> d.g, snap |-> d.snap, keys |-> "list"]
    ELSE d
\* json.load of a document.
JsonLoad(doc) == doc

\* Mutant: the existing entry is not recognised (every read is a miss).
read_json_if_exists_miss(f) == NoneVal

\* read_json_if_exists: None when the file is missing or does not parse.
read_json_if_exists(f) ==
    IF f.kind = "doc" THEN JsonLoad(f.doc) ELSE NoneVal

\* Mutant: the freshness window excludes its upper end.
is_fresh_strict(f, now, freshness_seconds) ==
    IF f.kind = "absent" THEN FALSE
    ELSE (now - f.mtime) < freshness_seconds

\* is_fresh: os.path.getmtime raises for a missing file.
is_fresh(f, now, freshness_seconds) ==
    IF f.kind = "absent" THEN FALSE
    ELSE (now - f.mtime) <= freshness_seconds

\* ------------------------------------------------------------------------
\* Time: a grid of instants 60 s apart that holds the final threshold
\* ------------------------------------------------------------------------
FinalThreshold(r) == r.earliestStartTime + FINAL_CACHE_DELAY_HOURS * 3600

Now == FinalThreshold(race) - 180 + 60 * clock

\* Mutant: the test for a known start time (earliest_start > 0) is missing.
final_ready_any_start(r, now_ts) == now_ts >= FinalThreshold(r)

final_ready(r, now_ts) ==
    r.earliestStartTime > 0 /\ now_ts >= FinalThreshold(r)

\* ------------------------------------------------------------------------
\* parse_live_data.get_processed_results, seen from the cache: an error
\* object or the graded list of the feed(s) it fetched at some upstream
\* snapshot.
\* ------------------------------------------------------------------------
effective_gender(r, gender) ==
    IF policy_needs_gender(resolve_slot_policy(r))
    THEN (IF gender = NoGender THEN "men" ELSE gender)
    ELSE NoGender

FetchedFeed(r, g) ==
    IF policy_needs_gender(resolve_slot_policy(r))
    THEN (IF g = NoGender THEN "men" ELSE g)
    ELSE "both"

get_processed_results(r, g) ==
    {ErrorVal} \cup
    { [kind |-> "list", g |-> FetchedFeed(r, g), snap |-> s, keys |-> "tuple"] :
        s \in 1..MaxSnap }

IsError(d) == d.kind = "error"

\* ------------------------------------------------------------------------
\* get_processed_results_cached, one action per step a concurrent request
\* can interleave with
\* ------------------------------------------------------------------------
final_path(p) == get_cache_file_path(race, "final", gen[p])
inprog_path(p) == get_cache_file_path(race, "in_progress", gen[p])
target_path(p) == IF stage[p] = "final" THEN final_path(p) ELSE inprog_path(p)

\* lines 475-492: paths, now_ts, final_ready
Begin(p, gender) ==
    /\ pc[p] = "idle"
    /\ gen' = [gen EXCEPT ![p] = effective_gender(race, gender)]
    /\ stage' = [stage EXCEPT ![p] =
                    IF final_ready(race, Now) THEN "final" ELSE "in_progress"]
    /\ pc' = [pc EXCEPT ![p] =
                    IF final_ready(race, Now) THEN "final_read" ELSE "fresh"]
    /\ data' = [data EXCEPT ![p] = NoneVal]
    /\ fetches' = [fetches EXCEPT ![p] = 0]
    /\ hit' = [hit EXCEPT ![p] = FALSE]
    /\ writes' = [writes EXCEPT ![p] = 0]
    /\ observed' = [observed EXCEPT ![p] = "-"]
    /\ UNCHANGED <<clock, race, files, ioFaults>>
    /\ UNCHANGED nonCacheVars

\* lines 496-499: serve the final entry when it reads as a document
FinalRead(p) ==
    /\ pc[p] = "final_read"
    /\ LET d == read_json_if_exists(files[final_path(p)]) IN
        /\ observed' = [observed EXCEPT ![p] = files[final_path(p)].kind]
        /\ data' = [data EXCEPT ![p] = d]
        /\ hit' = [hit EXCEPT ![p] = d # NoneVal]
        /\ pc' = [pc EXCEPT ![p] = IF d # NoneVal THEN "done" ELSE "grade"]
    /\ UNCHANGED <<clock, race, files, ioFaults, gen, stage, fetches, writes>>
    /\ UNCHANGED nonCacheVars

\* line 510: is_fresh(inprog_path, freshness)
Fresh(p) ==
    /\ pc[p] = "fresh"
    /\ pc' = [pc EXCEPT ![p] =
                IF is_fresh(files[inprog_path(p)], Now, CACHE_FRESHNESS_SECONDS)
                THEN "inprog_read" ELSE "grade"]
    /\ UNCHANGED <<clock, race, files, ioFaults, gen, stage, data, fetches, hit,
                   writes, observed>>
    /\ UNCHANGED nonCacheVars

\* lines 511-514: serve the in-progress entry when it reads as a document
InprogRead(p) ==
    /\ pc[p] = "inprog_read"
    /\ LET d == read_json_if_exists(files[inprog_path(p)]) IN
        /\ observed' = [observed EXCEPT ![p] = files[inprog_path(p)].kind]
        /\ data' = [data EXCEPT ![p] = d]
        /\ hit' = [hit EXCEPT ![p] = d # NoneVal]
        /\ pc' = [pc EXCEPT ![p] = IF d # NoneVal THEN "done" ELSE "grade"]
    /\ UNCHANGED <<clock, race, files, ioFaults, gen, stage, fetches, writes>>
    /\ UNCHANGED nonCacheVars

\* Mutant: the error check is missing, the grader's error is written too.
Grade_StoreError(p) ==
    /\ pc[p] = "grade"
    /\ \E d \in get_processed_results(race, gen[p]) :
        /\ data' = [data EXCEPT ![p] = d]
        /\ pc' = [pc EXCEPT ![p] = "open"]
    /\ fetches' = [fetches EXCEPT ![p] = fetches[p] + 1]
    /\ UNCHANGED <<clock, race, files, ioFaults, gen, stage, hit, writes,
                   observed>>
    /\ UNCHANGED nonCacheVars

\* lines 503-505 and 518-519: the grader; an error is returned as it is
Grade(p) ==
    /\ pc[p] = "grade"
    /\ \E d \in get_processed_results(race, gen[p]) :
        /\ data' = [data EXCEPT ![p] = d]
        /\ pc' = [pc EXCEPT ![p] = IF IsError(d) THEN "done" ELSE "open"]
    /\ fetches' = [fetches EXCEPT ![p] = fetches[p] + 1]
    /\ UNCHANGED <<clock, race, files, ioFaults, gen, stage, hit, writes,
                   observed>>
    /\ UNCHANGED nonCacheVars

\* write_json, lines 83-84: open(path, 'w') truncates the file; a failure is
\* caught at line 88 and the call returns its data
WriteOpen(p) ==
    /\ pc[p] = "open"
    /\ \E ok \in (IF ioFaults THEN BOOLEAN ELSE {TRUE}) :
        IF ok
        THEN /\ files' = [files EXCEPT ![target_path(p)] = Partial(Now)]
             /\ writes' = [writes EXCEPT ![p] = writes[p] + 1]
             /\ pc' = [pc EXCEPT ![p] = "dump"]
        ELSE /\ pc' = [pc EXCEPT ![p] = "done"]
             /\ UNCHANGED <<files, writes>>
    /\ UNCHANGED <<clock, race, ioFaults, gen, stage, data, fetches, hit,
                   observed>>
    /\ UNCHANGED nonCacheVars

\* write_json, lines 85-86: json.dump, the final newline, close; a failure
\* leaves the truncated file behind
WriteDump(p) ==
    /\ pc[p] = "dump"
    /\ \E ok \in (IF ioFaults THEN BOOLEAN ELSE {TRUE}) :
        IF ok
        THEN /\ files' = [files EXCEPT ![target_path(p)] =
                                        Doc(JsonDump(data[p]), Now)]
             /\ writes' = [writes EXCEPT ![p] = writes[p] + 1]
        ELSE UNCHANGED <<files, writes>>
    /\ pc' = [pc EXCEPT ![p] = "done"]
    /\ UNCHANGED <<clock, race, ioFaults, gen, stage, data, fetches, hit,
                   observed>>
    /\ UNCHANGED nonCacheVars

\* the return statements (lines 499, 505, 507, 514, 521)
Return(p) ==
    /\ pc[p] = "done"
    /\ pc' = [pc EXCEPT ![p] = "idle"]
    /\ gen' = [gen EXCEPT ![p] = NoGender]
    /\ stage' = [stage EXCEPT ![p] = "in_progress"]
    /\ data' = [data EXCEPT ![p] = NoneVal]
    /\ fetches' = [fetches EXCEPT ![p] = 0]
    /\ hit' = [hit EXCEPT ![p] = FALSE]
    /\ writes' = [writes EXCEPT ![p] = 0]
    /\ observed' = [observed EXCEPT ![p] = "-"]
    /\ UNCHANGED <<clock, race, files, ioFaults>>
    /\ UNCHANGED nonCacheVars

\* time passes
Tick ==
    /\ clock < MaxClock
    /\ clock' = clock + 1
    /\ UNCHANGED <<race, files, ioFaults, pc, gen, stage, data, fetches, hit,
                   writes, observed>>
    /\ UNCHANGED nonCacheVars

\* ------------------------------------------------------------------------
\* adjustments.py
\* ------------------------------------------------------------------------
\* The race whose adjustments are resolved.
AdjRace == [key |-> "IM703A", distance |-> "70.3", date |-> <<2025, 6, 1>>]
AdjKeys == {AdjRace.key}

NoAssign == 0
VersionIds == 1..MaxVersions
Distances == {"70.3", "140.6"}
EffDates == {<<2025, 1, 1>>, <<2025, 6, 1>>, <<2025, 9, 1>>}

\* A manifest entry {id, distance, effective_from, file}; every version has
\* a factor file of its own.
FileOf(id) == <<"adjustments", id>>
Version(id, d, e) ==
    [id |-> id, distance |-> d, effective_from |-> e, file |-> FileOf(id)]

\* Order of two 'YYYY-MM-DD' strings as Python compares strings.
StrLess(a, b) ==
    \/ a[1] < b[1]
    \/ a[1] = b[1] /\ a[2] < b[2]
    \/ a[1] = b[1] /\ a[2] = b[2] /\ a[3] < b[3]

RECURSIVE InsertByEff(_, _)
InsertByEff(sorted, v) ==
    IF sorted = <<>> THEN <<v>>
    ELSE IF StrLess(v.effective_from, Head(sorted).effective_from)
         THEN <<v>> \o sorted
         ELSE <<Head(sorted)>> \o InsertByEff(Tail(sorted), v)

\* list.sort(key=effective_from): ascending and stable.
RECURSIVE SortByEff(_)
SortByEff(vs) ==
    IF vs = <<>> THEN <<>>
    ELSE InsertByEff(SortByEff(SubSeq(vs, 1, Len(vs) - 1)), vs[Len(vs)])

versions_for_distance(manifest, distance) ==
    SortByEff(SelectSeq(manifest, LAMBDA v : v.distance = distance))

NoVersion == [id |-> NoAssign]

\* Mutant: the loop stops at the first version that qualifies.
RECURSIVE select_loop_first(_, _, _)
select_loop_first(vs, r_date, selected) ==
    IF vs = <<>> THEN selected
    ELSE IF parse_date(Head(vs).effective_from) <= r_date
         THEN Head(vs)
         ELSE selected

\* The loop of _select_version over the sorted versions.
RECURSIVE select_loop(_, _, _)
select_loop(vs, r_date, selected) ==
    IF vs = <<>> THEN selected
    ELSE IF parse_date(Head(vs).effective_from) <= r_date
         THEN select_loop(Tail(vs), r_date, Head(vs))
         ELSE selected

select_version(manifest, distance, race_date) ==
    select_loop(versions_for_distance(manifest, distance),
                parse_date(race_date), NoVersion)

\* Mutant: the lookup ignores the id and takes the latest version.
find_version_latest(manifest, distance, version_id) ==
    LET vs == versions_for_distance(manifest, distance)
    IN  IF vs = <<>> THEN NoVersion ELSE vs[Len(vs)]

\* next(v for v in _versions_for_distance(distance) if v.id == version_id)
find_version(manifest, distance, version_id) ==
    LET vs == versions_for_distance(manifest, distance)
        hits == { i \in 1..Len(vs) : vs[i].id = version_id }
    IN  IF hits = {} THEN NoVersion
        ELSE vs[CHOOSE i \in hits : \A j \in hits : i <= j]

\* A filled module-level cache.
Loaded(v) == [kind |-> "loaded", v |-> v]

load_manifest == IF manifestCache = NoneVal THEN manifestDisk ELSE manifestCache.v
load_assignments == IF assignCache = NoneVal THEN assignDisk ELSE assignCache.v

AdjOk(v) == [kind |-> "ok", id |-> v.id, factors |-> v.file]
AdjRaised == [kind |-> "raised"]

\* Mutant: the stored assignment is ignored, the date rule always decides.
HasAssignment_never(existing) == FALSE

\* isinstance(existing, dict) and 'adjustments_version' in existing
HasAssignment(existing) == existing # NoAssign

\* get_adjustments_for_race, lines 106-143
GetAdjustments ==
    /\ adjOut = NoneVal
    /\ LET r == AdjRace
           assignments == load_assignments
           manifest == load_manifest
           existing == assignments[r.key]
           entry == IF HasAssignment(existing)
                    THEN find_version(manifest, r.distance, existing)
                    ELSE NoVersion
           selected == select_version(manifest, r.distance, r.date)
       IN
       /\ manifestCache' = Loaded(manifest)
       /\ IF entry # NoVersion
          THEN \* lines 120-122
               /\ adjOut' = AdjOk(entry)
               /\ assignCache' = Loaded(assignments)
               /\ UNCHANGED assignDisk
          ELSE IF selected = NoVersion
          THEN \* lines 126-127
               /\ adjOut' = AdjRaised
               /\ assignCache' = Loaded(assignments)
               /\ UNCHANGED assignDisk
          ELSE \* lines 129-143: the dict is updated in place, then saved;
               \* a failed save is logged and the factors are returned
               LET new == [assignments EXCEPT ![r.key] = selected.id] IN
               /\ adjOut' = AdjOk(selected)
               /\ assignCache' = Loaded(new)
               /\ \E saved \in (IF ioFaults THEN BOOLEAN ELSE {TRUE}) :
                    assignDisk' = IF saved THEN new ELSE assignDisk
    /\ UNCHANGED manifestDisk
    /\ UNCHANGED nonAdjVars

\* the caller takes the result (app.py:575-580)
AdjReturn ==
    /\ adjOut # NoneVal
    /\ adjOut' = NoneVal
    /\ UNCHANGED <<manifestDisk, assignDisk, manifestCache, assignCache>>
    /\ UNCHANGED nonAdjVars

\* a process restart empties the module-level caches
AdjRestart ==
    /\ adjOut = NoneVal
    /\ manifestCache # NoneVal
    /\ manifestCache' = NoneVal
    /\ assignCache' = NoneVal
    /\ UNCHANGED <<manifestDisk, assignDisk, adjOut>>
    /\ UNCHANGED nonAdjVars

ManifestIds(m) == { m[i].id : i \in 1..Len(m) }

\* The manifest file is read only while _manifest_cache is None (lines
\* 29-33): an edit made while the cache is filled acts exactly as the same
\* edit made just before the next reload, which is where the model puts it.
ManifestAdd ==
    /\ manifestCache = NoneVal
    /\ Len(manifestDisk) < MaxVersions
    /\ \E id \in VersionIds \ ManifestIds(manifestDisk),
          d \in Distances, e \in EffDates :
            manifestDisk' = Append(manifestDisk, Version(id, d, e))
    /\ UNCHANGED <<assignDisk, manifestCache, assignCache, adjOut>>
    /\ UNCHANGED nonAdjVars

ManifestRemove ==
    /\ manifestCache = NoneVal
    /\ \E i \in 1..Len(manifestDisk) :
            manifestDisk' = SubSeq(manifestDisk, 1, i - 1)
                            \o SubSeq(manifestDisk, i + 1, Len(manifestDisk))
    /\ UNCHANGED <<assignDisk, manifestCache, assignCache, adjOut>>
    /\ UNCHANGED nonAdjVars

ManifestEdit ==
    /\ manifestCache = NoneVal
    /\ \E i \in 1..Len(manifestDisk), d \in Distances, e \in EffDates :
            /\ Version(manifestDisk[i].id, d, e) # manifestDisk[i]
            /\ manifestDisk' =
                [manifestDisk EXCEPT ![i] = Version(manifestDisk[i].id, d, e)]
    /\ UNCHANGED <<assignDisk, manifestCache, assignCache, adjOut>>
    /\ UNCHANGED nonAdjVars

InitAdj ==
    /\ manifestDisk = <<>>
    /\ assignDisk = [k \in AdjKeys |-> NoAssign]
    /\ manifestCache = NoneVal
    /\ assignCache = NoneVal
    /\ adjOut = NoneVal

NextAdj ==
    \/ GetAdjustments
    \/ AdjReturn
    \/ AdjRestart
    \/ ManifestAdd
    \/ ManifestRemove
    \/ ManifestEdit

\* ------------------------------------------------------------------------
\* parse_live_data.py: dynamic slot allocation and its persistence
\* ------------------------------------------------------------------------
\* Races as races.json gives them; ag_men / ag_women are the lengths of
\* age_group_categories, has_start_urls tells whether prepare_race_urls
\* built the start URLs.
\* The split-dynamic race comes with every slots total and several numbers
\* of age-group categories; races.json holds one of these variants.
DynRaceConfigs ==
    { [key |-> "IM140C", distance |-> "140.6", date |-> <<2025, 11, 14>>,
       slots |-> [kind |-> "int", n |-> n], slot_policy |-> "none",
       earliestStartTime |-> 1000000, ag_men |-> am, ag_women |-> aw,
       has_start_urls |-> TRUE] :
        n \in 0..MaxSlots + 2, am \in 0..1, aw \in 0..2 }
    \cup
    { [key |-> "IM140C", distance |-> "140.6", date |-> <<2025, 11, 14>>,
       slots |-> [kind |-> "int", n |-> 5], slot_policy |-> "none",
       earliestStartTime |-> e, ag_men |-> 1, ag_women |-> 1,
       has_start_urls |-> u] :
        e \in {0, 1000000}, u \in BOOLEAN }
    \cup
    { [key |-> "IM140B", distance |-> "140.6", date |-> <<2025, 11, 13>>,
       slots |-> [kind |-> "int", n |-> 5], slot_policy |-> "none",
       earliestStartTime |-> 1000000, ag_men |-> 1, ag_women |-> 1,
       has_start_urls |-> TRUE] }

DynKeys == { c.key : c \in DynRaceConfigs }

\* The names cache_utils.py defines (its def statements).
CacheUtilsNames ==
    {"full_path", "_debug", "_warning", "ensure_dir", "get_cache_dir",
     "get_cache_file_path", "read_json_if_exists", "write_json", "is_fresh",
     "has_official_ag"}

\* fetch_start_count: an int, or None on any error
SomeCount(n) == [kind |-> "int", n |-> n]
StartCounts == { SomeCount(n) : n \in 0..MaxStart } \cup {NoneVal}

Counts(m, w, t) == [kind |-> "counts", men |-> m, women |-> w, computed_at |-> t]
Entry(d, c) == [kind |-> "entry", dynamic_slots |-> d, started_counts |-> c]

\* The instants of the grid straddle the end of the stabilization window:
\* instant 1 is earliestStartTime + 3600 exactly.
DynNow == dynRace.earliestStartTime + 3600 - 60 + 60 * dynClock

DynRet(v) == [kind |-> "ret", v |-> v]
DynRaised == [kind |-> "raised"]

\* What a call leaves behind: the race object, _dynamic_cache_data, the
\* persisted document and the call's outcome.
DynRes(r, c, d, o) == [race |-> r, cache |-> c, disk |-> d, out |-> o]

\* _load_dynamic_cache, lines 25-33
load_dynamic_cache(c, disk) == IF c # NoneVal THEN c ELSE Loaded(disk)

\* _save_dynamic_cache, lines 35-38: cache.write_json_atomic is looked up in
\* cache_utils when the line runs; a missing attribute raises AttributeError.
save_dynamic_cache(c, disk) ==
    IF c = NoneVal THEN [raised |-> FALSE, disk |-> disk]
    ELSE IF "write_json_atomic" \in CacheUtilsNames
         THEN [raised |-> FALSE, disk |-> c.v]
         ELSE [raised |-> TRUE, disk |-> disk]

\* persist_dynamic_state, lines 40-53 (no exception handler)
\* lines 52-53: data[key] = entry, then the save
PersistSaved(new, sv) ==
    [raised |-> sv.raised, cache |-> new, disk |-> sv.disk]
PersistEntry(new, disk) == PersistSaved(new, save_dynamic_cache(new, disk))

persist_dynamic_state(r, c, disk) ==
    IF r.dynamic_slots = NoneVal /\ r.started_counts = NoneVal
    THEN [raised |-> FALSE, cache |-> load_dynamic_cache(c, disk),
          disk |-> disk]
    ELSE PersistEntry(
            Loaded([load_dynamic_cache(c, disk).v EXCEPT ![r.key] =
                        Entry(r.dynamic_slots, r.started_counts)]),
            disk)

\* hydrate_race_dynamic, lines 55-68
hydrate_race_dynamic(r, doc) ==
    LET saved == IF r.key \in DOMAIN doc THEN doc[r.key] ELSE NoneVal
    IN  IF saved = NoneVal THEN r
        ELSE [r EXCEPT
                !.started_counts =
                    IF saved.started_counts # NoneVal /\ @ = NoneVal
                    THEN saved.started_counts ELSE @,
                !.dynamic_slots =
                    IF saved.dynamic_slots # NoneVal /\ @ = NoneVal
                    THEN saved.dynamic_slots ELSE @]

\* lines 166-169: race['started_counts'] is set, then persisted
CountsPersisted(r2, ps) ==
    DynRes(r2, ps.cache, ps.disk,
           IF ps.raised THEN DynRaised ELSE DynRet(r2.started_counts))
CountsStored(r2, c, disk) ==
    CountsPersisted(r2, persist_dynamic_state(r2, c, disk))

\* get_started_counts, lines 135-169; m and w are what fetch_start_count
\* returns for the two start URLs if the call gets to fetch them.
get_started_counts(r, c, disk, now, m, w) ==
    IF r.earliestStartTime <= 0 THEN DynRes(r, c, disk, DynRet(NoneVal))
    ELSE IF r.started_counts # NoneVal /\ now >= r.earliestStartTime + 3600
    THEN DynRes(r, c, disk, DynRet(r.started_counts))
    ELSE IF ~r.has_start_urls THEN DynRes(r, c, disk, DynRet(NoneVal))
    ELSE IF m = NoneVal \/ w = NoneVal THEN DynRes(r, c, disk, DynRet(NoneVal))
    ELSE CountsStored([r EXCEPT !.started_counts = Counts(m.n, w.n, now)],
                      c, disk)

\* get_started_counts gets to lines 156-157, the two fetch_start_count calls
get_started_counts_fetches(r, now) ==
    /\ r.earliestStartTime > 0
    /\ ~(r.started_counts # NoneVal /\ now >= r.earliestStartTime + 3600)
    /\ r.has_start_urls

\* a call of function fn and what its two fetch_start_count calls returned
Asked(fn, m, w) == [kind |-> "call", fn |-> fn, asked |-> TRUE,
                    men |-> m, women |-> w]
NotAsked(fn) == [kind |-> "call", fn |-> fn, asked |-> FALSE,
                 men |-> NoneVal, women |-> NoneVal]

\* Mutant: the quotient is truncated.
PyRound_floor(n, d) == n \div d

\* Python's round() of the quotient n / d of two non-negative integers:
\* to the nearest integer, a tie to the even one.  On the model's range the
\* float product performance_pool * (men_started / total_started) rounds as
\* the exact quotient does.
PyRound(n, d) ==
    LET q == n \div d
        rem == n % d
    IN  IF 2 * rem < d THEN q
        ELSE IF 2 * rem > d THEN q + 1
        ELSE IF q % 2 = 0 THEN q ELSE q + 1

\* int(race.get('slots', 0)) with its except clause, lines 192-195
TotalSlots(r) == IF r.slots.kind = "int" THEN r.slots.n ELSE 0

Alloc(mw, mp, ww, wp, t) ==
    [kind |-> "alloc",
     men |-> [winner_slots |-> mw, pool_slots |-> mp, total_slots |-> mw + mp],
     women |-> [winner_slots |-> ww, pool_slots |-> wp, total_slots |-> ww + wp],
     computed_at |-> t]

\* lines 233-235: race['dynamic_slots'] is set, then persisted
AllocPersisted(r2, ps) ==
    DynRes(r2, ps.cache, ps.disk,
           IF ps.raised THEN DynRaised ELSE DynRet(r2.dynamic_slots))
AllocStored(r2, c, disk) ==
    AllocPersisted(r2, persist_dynamic_state(r2, c, disk))

\* lines 204-235, g being what get_started_counts left behind
ComputeFromCounts(r, now, g) ==
    IF g.out = DynRaised \/ g.out.v = NoneVal THEN g
    ELSE
    LET counts == g.out.v
        total_started == counts.men + counts.women
        auto_slots_total == r.ag_men + r.ag_women
        performance_pool == IF TotalSlots(r) - auto_slots_total < 0 THEN 0
                            ELSE TotalSlots(r) - auto_slots_total
        men_pool == PyRound(performance_pool * counts.men, total_started)
        women_pool == performance_pool - men_pool
    IN
    IF total_started <= 0
    THEN DynRes(g.race, g.cache, g.disk, DynRet(NoneVal))
    ELSE AllocStored([g.race EXCEPT !.dynamic_slots =
                        Alloc(r.ag_men, men_pool, r.ag_women, women_pool, now)],
                     g.cache, g.disk)

\* Mutant: the stabilization window is not waited for.
compute_dynamic_slots_nowait(r, c, disk, now, m, w) ==
    IF resolve_slot_policy(r) # "split-dynamic"
    THEN DynRes(r, c, disk, DynRet(NoneVal))
    ELSE IF TotalSlots(r) <= 0 THEN DynRes(r, c, disk, DynRet(NoneVal))
    ELSE IF r.ag_men = 0 /\ r.ag_women = 0
    THEN DynRes(r, c, disk, DynRet(NoneVal))
    ELSE ComputeFromCounts(r, now, get_started_counts(r, c, disk, now, m, w))

\* compute_dynamic_slots, lines 171-235
compute_dynamic_slots(r, c, disk, now, m, w) ==
    IF resolve_slot_policy(r) # "split-dynamic"
    THEN DynRes(r, c, disk, DynRet(NoneVal))
    ELSE IF r.earliestStartTime <= 0 \/ now < r.earliestStartTime + 3600
    THEN DynRes(r, c, disk, DynRet(NoneVal))
    ELSE IF TotalSlots(r) <= 0 THEN DynRes(r, c, disk, DynRet(NoneVal))
    ELSE IF r.ag_men = 0 /\ r.ag_women = 0
    THEN DynRes(r, c, disk, DynRet(NoneVal))
    ELSE ComputeFromCounts(r, now, get_started_counts(r, c, disk, now, m, w))

\* compute_dynamic_slots gets to line 203 and get_started_counts to its
\* fetches
compute_dynamic_slots_fetches(r, now) ==
    /\ resolve_slot_policy(r) = "split-dynamic"
    /\ ~(r.earliestStartTime <= 0 \/ now < r.earliestStartTime + 3600)
    /\ TotalSlots(r) > 0
    /\ ~(r.ag_men = 0 /\ r.ag_women = 0)
    /\ get_started_counts_fetches(r, now)

\* load_and_process_races for one race (app.py:76-97): the race object is
\* rebuilt from races.json, hydrated, and its policy annotated.
LoadRace(cfg, disk) ==
    LET fresh == [key |-> cfg.key, distance |-> cfg.distance,
                  date |-> cfg.date, slots |-> cfg.slots,
                  slot_policy |-> cfg.slot_policy,
                  earliestStartTime |-> cfg.earliestStartTime,
                  ag_men |-> cfg.ag_men, ag_women |-> cfg.ag_women,
                  has_start_urls |-> cfg.has_start_urls,
                  started_counts |-> NoneVal, dynamic_slots |-> NoneVal]
        h == hydrate_race_dynamic(fresh, disk)
    IN  [h EXCEPT !.slot_policy = resolve_slot_policy(h)]

DynEnd(res) ==
    /\ dynRace' = res.race
    /\ dynCache' = res.cache
    /\ dynDisk' = res.disk
    /\ dynOut' = res.out

\* a call of get_started_counts
GetStartedCounts ==
    /\ dynOut = NoneVal
    /\ \E m \in StartCounts, w \in StartCounts :
         /\ DynEnd(get_started_counts(dynRace, dynCache, dynDisk, DynNow, m, w))
         /\ dynCall' = IF get_started_counts_fetches(dynRace, DynNow)
                        THEN Asked("get_started_counts", m, w)
                        ELSE NotAsked("get_started_counts")
    /\ UNCHANGED dynClock
    /\ UNCHANGED nonDynVars

\* a call of compute_dynamic_slots
ComputeDynamicSlots ==
    /\ dynOut = NoneVal
    /\ \E m \in StartCounts, w \in StartCounts :
         /\ DynEnd(compute_dynamic_slots(dynRace, dynCache, dynDisk, DynNow, m, w))
         /\ dynCall' = IF compute_dynamic_slots_fetches(dynRace, DynNow)
                        THEN Asked("compute_dynamic_slots", m, w)
                        ELSE NotAsked("compute_dynamic_slots")
    /\ UNCHANGED dynClock
    /\ UNCHANGED nonDynVars

\* the caller takes the outcome of the call
DynReturn ==
    /\ dynOut # NoneVal
    /\ dynOut' = NoneVal
    /\ dynCall' = NoneVal
    /\ UNCHANGED <<dynClock, dynRace, dynDisk, dynCache>>
    /\ UNCHANGED nonDynVars

\* time passes
DynTick ==
    /\ dynClock < MaxClock
    /\ dynClock' = dynClock + 1
    /\ UNCHANGED <<dynRace, dynDisk, dynCache, dynOut, dynCall>>
    /\ UNCHANGED nonDynVars

\* cfg is the races.json entry the race object r was built from
SameRace(cfg, r) ==
    /\ cfg.key = r.key
    /\ cfg.slots = r.slots
    /\ cfg.ag_men = r.ag_men
    /\ cfg.ag_women = r.ag_women
    /\ cfg.earliestStartTime = r.earliestStartTime
    /\ cfg.has_start_urls = r.has_start_urls

\* a process restart: the race objects and _dynamic_cache_data are lost,
\* races.json is loaded again and each race hydrated
DynRestart ==
    /\ dynOut = NoneVal
    /\ \E cfg \in DynRaceConfigs :
         /\ SameRace(cfg, dynRace)
         /\ dynRace' = LoadRace(cfg, dynDisk)
    /\ dynCache' = Loaded(dynDisk)
    /\ UNCHANGED <<dynClock, dynDisk, dynOut, dynCall>>
    /\ UNCHANGED nonDynVars

InitDynAt(cfgs, clocks) ==
    /\ dynClock \in clocks
    /\ dynDisk = [k \in DynKeys |-> NoneVal]
    /\ dynCache = Loaded(dynDisk)
    /\ \E cfg \in cfgs : dynRace = LoadRace(cfg, dynDisk)
    /\ dynOut = NoneVal
    /\ dynCall = NoneVal

InitDyn(cfgs) == InitDynAt(cfgs, {0})

NextDyn ==
    \/ GetStartedCounts
    \/ ComputeDynamicSlots
    \/ DynReturn
    \/ DynTick
    \/ DynRestart

\* ------------------------------------------------------------------------
\* Concurrent split-dynamic requests.  Flask serves requests on threads that
\* share the race objects and _dynamic_cache_data; nothing in
\* parse_live_data.py or app.py takes a lock.  A thread's step is the code
\* between two accesses of the shared race object.
\* ------------------------------------------------------------------------
ReqIdle == [caller |-> "", now |-> 0, counts |-> NoneVal, out |-> NoneVal]

ReqSet(t, at, loc) ==
    /\ reqPc' = [reqPc EXCEPT ![t] = at]
    /\ reqLocal' = [reqLocal EXCEPT ![t] = loc]

\* the request ends with outcome o of the dynamic-slot part
ReqDone(t, o) == ReqSet(t, "done", [reqLocal[t] EXCEPT !.out = o])

\* race.get('dynamic_slots') read by a caller: a stored allocation is
\* reused, otherwise compute_dynamic_slots is called
ReqBegin(t, caller) ==
    /\ reqPc[t] = "idle"
    /\ resolve_slot_policy(dynRace) = "split-dynamic"
    /\ IF dynRace.dynamic_slots # NoneVal
       THEN ReqSet(t, "done", [ReqIdle EXCEPT !.caller = caller,
                                              !.out = DynRet(dynRace.dynamic_slots)])
       ELSE ReqSet(t, "compute", [ReqIdle EXCEPT !.caller = caller])
    /\ UNCHANGED <<dynRace, dynCache, dynDisk>>
    /\ UNCHANGED nonReqVars

\* annotate_slot_allocation line 258, called by live_results_table
AnnotateBegin(t) == ReqBegin(t, "annotate_slot_allocation")

\* compute_slot_summary, app.py:474-482
SummaryBegin(t) == ReqBegin(t, "compute_slot_summary")

\* compute_dynamic_slots lines 183-202: the prerequisites, with its now_ts
ReqCompute(t) ==
    /\ reqPc[t] = "compute"
    /\ IF \/ dynRace.earliestStartTime <= 0
          \/ DynNow < dynRace.earliestStartTime + 3600
          \/ TotalSlots(dynRace) <= 0
          \/ (dynRace.ag_men = 0 /\ dynRace.ag_women = 0)
       THEN ReqDone(t, DynRet(NoneVal))
       ELSE ReqSet(t, "counts", [reqLocal[t] EXCEPT !.now = DynNow])
    /\ UNCHANGED <<dynRace, dynCache, dynDisk>>
    /\ UNCHANGED nonReqVars

\* get_started_counts lines 143-153: race.get('started_counts') is read
ReqCounts(t) ==
    /\ reqPc[t] = "counts"
    /\ IF /\ dynRace.started_counts # NoneVal
          /\ DynNow >= dynRace.earliestStartTime + 3600
       THEN ReqSet(t, "alloc",
                   [reqLocal[t] EXCEPT !.counts = dynRace.started_counts])
       ELSE IF ~dynRace.has_start_urls THEN ReqDone(t, DynRet(NoneVal))
       ELSE ReqSet(t, "fetch", reqLocal[t])
    /\ UNCHANGED <<dynRace, dynCache, dynDisk>>
    /\ UNCHANGED nonReqVars

\* what the thread does with the outcome of get_started_counts
ReqFetched(t, g) ==
    /\ dynRace' = g.race
    /\ dynCache' = g.cache
    /\ dynDisk' = g.disk
    /\ IF g.out = DynRaised \/ g.out.v = NoneVal
       THEN ReqDone(t, g.out)
       ELSE ReqSet(t, "alloc", [reqLocal[t] EXCEPT !.counts = g.out.v])

\* get_started_counts lines 154-169: the two fetches, the store of
\* race['started_counts'] and its persist
ReqFetch(t) ==
    /\ reqPc[t] = "fetch"
    /\ \E m \in StartCounts, w \in StartCounts :
         ReqFetched(t,
            IF m = NoneVal \/ w = NoneVal
            THEN DynRes(dynRace, dynCache, dynDisk, DynRet(NoneVal))
            ELSE CountsStored([dynRace EXCEPT
                                 !.started_counts = Counts(m.n, w.n, DynNow)],
                              dynCache, dynDisk))
    /\ UNCHANGED nonReqVars

\* what the thread does with the outcome of lines 204-235
ReqAllocated(t, g) ==
    /\ dynRace' = g.race
    /\ dynCache' = g.cache
    /\ dynDisk' = g.disk
    /\ ReqDone(t, g.out)

\* compute_dynamic_slots lines 204-235 on the counts the thread holds: the
\* split, the store of race['dynamic_slots'] and its persist
ReqAlloc(t) ==
    /\ reqPc[t] = "alloc"
    /\ ReqAllocated(t,
          ComputeFromCounts(dynRace, reqLocal[t].now,
              DynRes(dynRace, dynCache, dynDisk, DynRet(reqLocal[t].counts))))
    /\ UNCHANGED nonReqVars

\* the caller goes on with the allocation, or with none after an exception
\* (the handlers at app.py:487 and app.py:607 catch it)
ReqEnd(t) ==
    /\ reqPc[t] = "done"
    /\ ReqSet(t, "idle", ReqIdle)
    /\ UNCHANGED <<dynRace, dynCache, dynDisk>>
    /\ UNCHANGED nonReqVars

InitReq ==
    /\ reqPc = [t \in Procs |-> "idle"]
    /\ reqLocal = [t \in Procs |-> ReqIdle]

\* time passes while requests run
ReqTick ==
    /\ dynClock < MaxClock
    /\ dynClock' = dynClock + 1
    /\ UNCHANGED <<dynRace, dynDisk, dynCache, dynOut, dynCall, reqVars>>
    /\ UNCHANGED <<cacheVars, adjVars, polVars, plrVars, annVars, gprVars, wkVars>>

NextReq ==
    \/ \E t \in Procs : AnnotateBegin(t)
    \/ \E t \in Procs : SummaryBegin(t)
    \/ \E t \in Procs : ReqCompute(t)
    \/ \E t \in Procs : ReqCounts(t)
    \/ \E t \in Procs : ReqFetch(t)
    \/ \E t \in Procs : ReqAlloc(t)
    \/ \E t \in Procs : ReqEnd(t)
    \/ ReqTick

\* ------------------------------------------------------------------------
\* slot_policy.py as a function of the race: the inputs and the call
\* ------------------------------------------------------------------------
PolicyInputs == AllowedPolicies \cup NonStringPolicies \cup {"Split-Dynamic"}
SlotShapes ==
    { [kind |-> "int", n |-> 5],
      [kind |-> "map", men |-> 3, women |-> 2],
      [kind |-> "map", men |-> 3],
      [kind |-> "map"],
      [kind |-> "none"] }
PolDistances == {"70.3", "140.6", "other"}
\* <<>> is a missing or unparseable date
PolDates == { <<2024, 12, 31>>, <<2025, 11, 13>>, <<2025, 11, 14>>,
              <<2025, 12, 1>>, <<2026, 1, 1>>, <<>> }

PolRaces ==
    [slot_policy : PolicyInputs, slots : SlotShapes,
     distance : PolDistances, date : PolDates]

PolRet(v) == [kind |-> "ret", v |-> v]

\* a call of resolve_slot_policy (app.py:94, 321, 333, 341, 421, 562)
ResolvePolicy ==
    /\ polOut = NoneVal
    /\ polOut' = PolRet(resolve_slot_policy(polRace))
    /\ UNCHANGED polRace
    /\ UNCHANGED nonPolVars

\* the caller takes the result; the next race is looked at
PolNextRace ==
    /\ polOut # NoneVal
    /\ polOut' = NoneVal
    /\ polRace' \in PolRaces
    /\ UNCHANGED nonPolVars

InitPol(rs) ==
    /\ polRace \in rs
    /\ polOut = NoneVal

NextPol ==
    \/ ResolvePolicy
    \/ PolNextRace

\* The race the other models keep in polRace.
PolIdleRaces ==
    { r \in PolRaces : /\ r.slot_policy = "none" /\ r.slots.kind = "none"
                       /\ r.distance = "other" /\ r.date = <<>> }

\* ------------------------------------------------------------------------
\* parse_live_data.py: process_live_results
\* ------------------------------------------------------------------------
\* Strings the code takes apart are sequences of characters.
Whitespace == {" ", "\t"}
Digits == {"0", "1", "2", "3", "4", "5", "6", "7", "8", "9"}

\* re.sub(r"\s+", "", raw_division), line 362
StripWhitespace(str) == SelectSeq(str, LAMBDA ch : ch \notin Whitespace)

\* ag_pattern.match, line 348: ^([MF])(\d{2})-?(\d{2})$ with IGNORECASE
ag_pattern_match(str) ==
    \/ /\ Len(str) = 6
       /\ str[1] \in {"M", "F", "m", "f"}
       /\ {str[2], str[3], str[5], str[6]} \subseteq Digits
       /\ str[4] = "-"
    \/ /\ Len(str) = 5
       /\ str[1] \in {"M", "F", "m", "f"}
       /\ {str[2], str[3], str[4], str[5]} \subseteq Digits

\* str.upper() of the sex letter, line 367
Upper(ch) == IF ch = "m" THEN "M" ELSE IF ch = "f" THEN "F" ELSE ch

\* f"{sex}{a}-{b}", lines 367-368, of a string the pattern matched
NormalizeDivision(str) ==
    IF Len(str) = 6
    THEN <<Upper(str[1]), str[2], str[3], "-", str[5], str[6]>>
    ELSE <<Upper(str[1]), str[2], str[3], "-", str[4], str[5]>>

\* A time field is the string "H:M:S" (with or without a fraction), a
\* string of another form, or null.
Hms(h, m, sec) == [kind |-> "hms", h |-> h, m |-> m, s |-> sec]
TextTime == [kind |-> "text"]
NullTime == [kind |-> "null"]
\* further "time" fields: the key absent (item.get gives ""), the empty
\* string, a JSON number
AbsentTime == [kind |-> "absent"]
EmptyTime == [kind |-> "empty"]
NumberTime == [kind |-> "number"]

\* item.get("time", "") is not a string: it has no split (line 354)
NotAString(t) == t.kind \in {"null", "number"}

\* time_to_seconds, lines 292-302, of the string before the first "."
time_to_seconds(t) ==
    IF t.kind = "hms" THEN SomeCount(t.h * 3600 + t.m * 60 + t.s)
    ELSE NoneVal

\* ag_adjustments.get(age_group, 1.0), line 370; factors are in thousandths
DefaultFactor == [kind |-> "permille", n |-> 1000]
AgAdjustments(age_group) ==
    IF age_group = <<"F", "4", "5", "-", "4", "9">>
    THEN [kind |-> "permille", n |-> 900]
    ELSE DefaultFactor

\* The entry built at lines 373-383 (places are added after the sort);
\* graded_time_seconds is in thousandths of a second.
PlrEntry(item, secs, age_group) ==
    [age_group |-> age_group,
     finish_time_seconds |-> secs,
     graded_time_seconds |-> secs * AgAdjustments(age_group).n]

\* One pass of the loop at lines 351-386 over a record: the entries it
\* appends, or "raise" when an exception leaves the try block uncaught
\* (None.split is an AttributeError, the handler takes KeyError, TypeError).
ParseItem(item) ==
    IF NotAString(item.time) THEN [raised |-> TRUE, entries |-> <<>>]
    ELSE LET secs == time_to_seconds(item.time)
             compact == StripWhitespace(item.division)
         IN  IF secs = NoneVal THEN [raised |-> FALSE, entries |-> <<>>]
             ELSE IF ~ag_pattern_match(compact)
             THEN [raised |-> FALSE, entries |-> <<>>]
             ELSE [raised |-> FALSE,
                   entries |-> <<PlrEntry(item, secs.n,
                                          NormalizeDivision(compact))>>]

RECURSIVE ParseAll(_)
ParseAll(items) ==
    IF items = <<>> THEN [raised |-> FALSE, entries |-> <<>>]
    ELSE LET first == ParseItem(Head(items))
             rest == ParseAll(Tail(items))
         IN  [raised |-> first.raised \/ rest.raised,
              entries |-> first.entries \o rest.entries]

RECURSIVE InsertByGraded(_, _)
InsertByGraded(sorted, e) ==
    IF sorted = <<>> THEN <<e>>
    ELSE IF e.graded_time_seconds < Head(sorted).graded_time_seconds
         THEN <<e>> \o sorted
         ELSE <<Head(sorted)>> \o InsertByGraded(Tail(sorted), e)

\* processed_data.sort(key=graded_time_seconds), line 388: stable
RECURSIVE SortByGraded(_)
SortByGraded(es) ==
    IF es = <<>> THEN <<>>
    ELSE InsertByGraded(SortByGraded(SubSeq(es, 1, Len(es) - 1)), es[Len(es)])

Placed(e, gp, ap) ==
    [age_group |-> e.age_group,
     finish_time_seconds |-> e.finish_time_seconds,
     graded_time_seconds |-> e.graded_time_seconds,
     graded_place |-> gp, ag_place |-> ap]

\* ag_place_counters.get(ag, 0) + 1 over the entries already placed
AgCount(done, age_group) ==
    Cardinality({ j \in 1..Len(done) : done[j].age_group = age_group })

\* Mutant: after a tie block the place continues from the block's place.
PlaceLoop_dense(sorted, i, done) ==
    LET gp == IF i = 1 THEN 1
              ELSE IF sorted[i].graded_time_seconds
                        = sorted[i - 1].graded_time_seconds
              THEN done[i - 1].graded_place
              ELSE done[i - 1].graded_place + 1
    IN  Placed(sorted[i], gp, AgCount(done, sorted[i].age_group) + 1)

\* Mutant: the age-group place takes ties over from the overall place.
PlaceLoop_agties(sorted, i, done) ==
    LET gp == IF i = 1 THEN 1
              ELSE IF sorted[i].graded_time_seconds
                        = sorted[i - 1].graded_time_seconds
              THEN done[i - 1].graded_place
              ELSE i
        tied == { j \in 1..Len(done) :
                    /\ done[j].age_group = sorted[i].age_group
                    /\ done[j].graded_time_seconds
                         = sorted[i].graded_time_seconds }
    IN  Placed(sorted[i], gp,
               IF tied = {} THEN AgCount(done, sorted[i].age_group) + 1
               ELSE done[CHOOSE j \in tied : TRUE].ag_place)

\* The places of entry i (lines 392-416), given the entries placed so far.
PlaceLoop(sorted, i, done) ==
    LET gp == IF i = 1 THEN 1
              ELSE IF sorted[i].graded_time_seconds
                        = sorted[i - 1].graded_time_seconds
              THEN done[i - 1].graded_place
              ELSE i
    IN  Placed(sorted[i], gp, AgCount(done, sorted[i].age_group) + 1)

RECURSIVE PlaceAll(_, _)
PlaceAll(sorted, done) ==
    IF Len(done) = Len(sorted) THEN done
    ELSE PlaceAll(sorted, Append(done, PlaceLoop(sorted, Len(done) + 1, done)))

PlrRet(v) == [kind |-> "ret", v |-> v]
PlrRaised == [kind |-> "raised"]

\* Mutant: the division is matched as it comes, whitespace included.
process_live_results_nostrip(items) ==
    LET parsed == ParseAll([ i \in 1..Len(items) |->
                     IF ag_pattern_match(items[i].division) THEN items[i]
                     ELSE [items[i] EXCEPT !.division = <<>>] ])
    IN  IF parsed.raised THEN PlrRaised
        ELSE PlrRet(PlaceAll(SortByGraded(parsed.entries), <<>>))

\* process_live_results, lines 340-418, of a list
process_live_results(items) ==
    LET parsed == ParseAll(items)
    IN  IF parsed.raised THEN PlrRaised
        ELSE PlrRet(PlaceAll(SortByGraded(parsed.entries), <<>>))

\* ------------------------------------------------------------------------
\* parse_live_data.py: annotate_slot_allocation
\* ------------------------------------------------------------------------
Flagged(e, winner, qualifier) ==
    [age_group |-> e.age_group,
     finish_time_seconds |-> e.finish_time_seconds,
     graded_time_seconds |-> e.graded_time_seconds,
     graded_place |-> e.graded_place, ag_place |-> e.ag_place,
     ag_winner |-> winner, pool_qualifier |-> qualifier]

\* lines 248-256: the total under the two fixed policies
FixedTotalSlots(policy, r, selected_gender) ==
    IF policy = "split-fixed"
    THEN IF r.slots.kind = "map" /\ selected_gender \in DOMAIN r.slots
              /\ selected_gender \in Genders
         THEN r.slots[selected_gender] ELSE 0
    ELSE IF r.slots.kind = "int" THEN r.slots.n ELSE 0

\* lines 284-289: the walk that hands out the remaining slots
RECURSIVE MarkPool(_, _, _)
MarkPool(res, i, remaining) ==
    IF i > Len(res) \/ remaining <= 0 THEN res
    ELSE IF ~res[i].ag_winner
         THEN MarkPool([res EXCEPT ![i] = Flagged(res[i], FALSE, TRUE)],
                       i + 1, remaining - 1)
         ELSE MarkPool(res, i + 1, remaining)

\* Mutant: the walk for the pool starts behind the last winner.
MarkSlots_pool_after_winners(res, total_slots) ==
    LET cleared == [ i \in 1..Len(res) |-> Flagged(res[i], FALSE, FALSE) ]
        winners == [ i \in 1..Len(res) |->
                        Flagged(res[i], res[i].ag_place = 1, FALSE) ]
        winners_by_ag == { res[i].age_group :
                             i \in { j \in 1..Len(res) : res[j].ag_place = 1 } }
        last == IF winners_by_ag = {} THEN 0
                ELSE CHOOSE i \in 1..Len(res) :
                        /\ res[i].ag_place = 1
                        /\ \A j \in i + 1..Len(res) : res[j].ag_place # 1
        remaining == IF total_slots - Cardinality(winners_by_ag) < 0 THEN 0
                     ELSE total_slots - Cardinality(winners_by_ag)
    IN  IF total_slots <= 0 \/ res = <<>> THEN cleared
        ELSE MarkPool(winners, last + 1, remaining)

\* lines 265-290: flags for a list under a known total
MarkSlots(res, total_slots) ==
    LET cleared == [ i \in 1..Len(res) |-> Flagged(res[i], FALSE, FALSE) ]
        winners == [ i \in 1..Len(res) |->
                        Flagged(res[i], res[i].ag_place = 1, FALSE) ]
        winners_by_ag == { res[i].age_group :
                             i \in { j \in 1..Len(res) : res[j].ag_place = 1 } }
        remaining == IF total_slots - Cardinality(winners_by_ag) < 0 THEN 0
                     ELSE total_slots - Cardinality(winners_by_ag)
    IN  IF total_slots <= 0 \/ res = <<>> THEN cleared
        ELSE MarkPool(winners, 1, remaining)

AnnRet(v) == [kind |-> "ret", v |-> v]
AnnRaised == [kind |-> "raised"]
AnnRes(r, c, d, o) == [race |-> r, cache |-> c, disk |-> d, out |-> o]

\* Mutant: without an allocation the call goes on to lines 265-271 with a
\* total of 0 instead of returning at line 263.
AnnotateDynamic_falls_through(res, selected_gender, cd) ==
    IF cd.out = DynRaised
    THEN AnnRes(cd.race, cd.cache, cd.disk, AnnRaised)
    ELSE IF cd.out.v # NoneVal /\ selected_gender \in Genders
    THEN AnnRes(cd.race, cd.cache, cd.disk,
                AnnRet(MarkSlots(res, cd.out.v[selected_gender].total_slots)))
    ELSE AnnRes(cd.race, cd.cache, cd.disk, AnnRet(MarkSlots(res, 0)))

\* lines 258-263, cd being the outcome of
\* race_obj.get('dynamic_slots') or compute_dynamic_slots(race_obj)
AnnotateDynamic(res, selected_gender, cd) ==
    IF cd.out = DynRaised
    THEN AnnRes(cd.race, cd.cache, cd.disk, AnnRaised)
    ELSE IF cd.out.v # NoneVal /\ selected_gender \in Genders
    THEN AnnRes(cd.race, cd.cache, cd.disk,
                AnnRet(MarkSlots(res, cd.out.v[selected_gender].total_slots)))
    ELSE AnnRes(cd.race, cd.cache, cd.disk, AnnRet(res))

\* annotate_slot_allocation, lines 237-290; c, disk, now, m, w are what
\* compute_dynamic_slots works on if the call gets to it.
annotate_slot_allocation(res, r, selected_gender, c, disk, now, m, w) ==
    IF resolve_slot_policy(r) \in {"split-fixed", "combined-fixed"}
    THEN AnnRes(r, c, disk,
                AnnRet(MarkSlots(res,
                    FixedTotalSlots(resolve_slot_policy(r), r, selected_gender))))
    ELSE AnnotateDynamic(res, selected_gender,
            IF r.dynamic_slots # NoneVal
            THEN DynRes(r, c, disk, DynRet(r.dynamic_slots))
            ELSE compute_dynamic_slots(r, c, disk, now, m, w))

\* The records a feed delivers: each division with two finish times, and
\* each kind of unusable finish time (not H:M:S, null, absent, empty, a
\* number) with an eligible division.
PlrDivisions ==
    { <<"M", "1", "8", "-", "2", "4">>,
      <<"f", "4", "5", "4", "9">>,
      <<" ", "M", "1", "8", " ", "-", " ", "2", "4", " ">>,
      <<"P", "R", "O">>,
      <<"R", "E", "L", "A", "Y">>,
      <<"M", "1", "8">> }
PlrTimes == { Hms(0, 1, 30), Hms(0, 1, 40) }
PlrRecords ==
    [time : PlrTimes, division : PlrDivisions]
    \cup [time : {TextTime, NullTime, AbsentTime, EmptyTime, NumberTime},
          division : {<<"M", "1", "8", "-", "2", "4">>}]

\* the feed's list gains a record
PlrAppend ==
    /\ plrOut = NoneVal
    /\ Len(plrIn) < MaxRecords
    /\ \E rec \in PlrRecords : plrIn' = Append(plrIn, rec)
    /\ UNCHANGED plrOut
    /\ UNCHANGED nonPlrVars

\* a call of process_live_results (line 460)
ProcessLiveResults ==
    /\ plrOut = NoneVal
    /\ plrOut' = process_live_results(plrIn)
    /\ UNCHANGED plrIn
    /\ UNCHANGED nonPlrVars

\* the caller takes the result; the next batch starts empty
PlrTake ==
    /\ plrOut # NoneVal
    /\ plrOut' = NoneVal
    /\ plrIn' = <<>>
    /\ UNCHANGED nonPlrVars

InitPlr ==
    /\ plrIn = <<>>
    /\ plrOut = NoneVal

NextPlr ==
    \/ PlrAppend
    \/ ProcessLiveResults
    \/ PlrTake

\* ------------------------------------------------------------------------
\* parse_live_data.py: get_processed_results over the answers of the feeds
\* ------------------------------------------------------------------------
\* fetch_live_results returns the feed's JSON object, or an {"error": ...}
\* object (lines 328-338)
FeedError(msg) == [kind |-> "error", error |-> msg]
\* raw_data.get("list", []) of a feed object; one without "list" gives []
FeedOk(list) == [kind |-> "raw", list |-> list]
HasError(d) == d.kind = "error"
FeedList(d) == IF d.kind = "raw" THEN d.list ELSE <<>>

GprList(v) == [kind |-> "list", v |-> v]
GprRaised == [kind |-> "raised"]
\* what get_processed_results leaves: its outcome and the feeds it fetched
GprRes(o, fetched) == [kind |-> "gpr", out |-> o, fetched |-> fetched]

\* lines 457-460 on all_data_list
GradeAll(all_data_list) ==
    IF all_data_list = <<>>
    THEN FeedError("No live data found for the selected race.")
    ELSE LET o == process_live_results(all_data_list)
         IN  IF o = PlrRaised THEN GprRaised ELSE GprList(o.v)

\* Mutant: a failing feed fails the call.
get_processed_results_feeds_strict(r, gender, men_data, women_data) ==
    IF policy_needs_gender(resolve_slot_policy(r))
    THEN LET g == IF gender = NoGender THEN "men" ELSE gender
             raw_data == IF g = "men" THEN men_data ELSE women_data
         IN  IF HasError(raw_data) THEN GprRes(raw_data, {g})
             ELSE GprRes(GradeAll(FeedList(raw_data)), {g})
    ELSE IF r.distance \notin {"70.3", "140.6"}
    THEN GprRes(FeedError("Invalid race distance"), {})
    ELSE IF HasError(men_data) THEN GprRes(men_data, {"men", "women"})
    ELSE IF HasError(women_data) THEN GprRes(women_data, {"men", "women"})
    ELSE GprRes(GradeAll(FeedList(men_data) \o FeedList(women_data)),
                {"men", "women"})

\* get_processed_results, lines 423-460; men_data and women_data are what
\* fetch_live_results returns for the two live URLs if the call fetches them
get_processed_results_feeds(r, gender, men_data, women_data) ==
    IF policy_needs_gender(resolve_slot_policy(r))
    THEN LET g == IF gender = NoGender THEN "men" ELSE gender
             raw_data == IF g = "men" THEN men_data ELSE women_data
         IN  IF HasError(raw_data) THEN GprRes(raw_data, {g})
             ELSE GprRes(GradeAll(FeedList(raw_data)), {g})
    ELSE IF r.distance \notin {"70.3", "140.6"}
    THEN GprRes(FeedError("Invalid race distance"), {})
    ELSE IF HasError(men_data) /\ HasError(women_data)
    THEN GprRes(men_data, {"men", "women"})
    ELSE GprRes(GradeAll(FeedList(men_data) \o FeedList(women_data)),
                {"men", "women"})

\* get_processed_results_cached, lines 503-507 and 518-521, after a cache
\* miss: the data is written unless it is an error object
CacheWrites(d) == d.kind = "list"

\* The races of the cache model and one of another distance.
GprRaces ==
    { [key |-> r.key, distance |-> r.distance, date |-> r.date,
       slots |-> r.slots, slot_policy |-> r.slot_policy] : r \in CacheRaces }
    \cup
    { [key |-> "SPRINT", distance |-> "other", date |-> <<2025, 6, 1>>,
       slots |-> [kind |-> "int", n |-> 5], slot_policy |-> "none"] }

\* Records of a feed: two that are graded, one of a division that is not
\* eligible, one whose finish time is null.
GprRecords ==
    { [time |-> Hms(0, 1, 30), division |-> <<"M", "1", "8", "-", "2", "4">>],
      [time |-> Hms(0, 1, 40), division |-> <<"f", "4", "5", "4", "9">>],
      [time |-> Hms(0, 1, 30), division |-> <<"P", "R", "O">>],
      [time |-> NullTime, division |-> <<"M", "1", "8", "-", "2", "4">>] }

GprFeeds ==
    { FeedError("no_finishers"), FeedError("Error retrieving data") }
    \cup { FeedOk(l) : l \in UNION { [1..k -> GprRecords] : k \in 0..MaxFeed } }

\* a call of get_processed_results
GetProcessedResults ==
    /\ gprOut = NoneVal
    /\ \E r \in GprRaces, g \in Genders \cup {NoGender},
          md \in GprFeeds, wd \in GprFeeds :
         /\ gprArgs' = [race |-> r, gender |-> g, men |-> md, women |-> wd]
         /\ gprOut' = get_processed_results_feeds(r, g, md, wd)
    /\ UNCHANGED nonGprVars

\* the caller takes the outcome
GprTake ==
    /\ gprOut # NoneVal
    /\ gprOut' = NoneVal
    /\ gprArgs' = NoneVal
    /\ UNCHANGED nonGprVars

InitGpr ==
    /\ gprArgs = NoneVal
    /\ gprOut = NoneVal

NextGpr ==
    \/ GetProcessedResults
    \/ GprTake

\* ------------------------------------------------------------------------
\* adjustments.py run by concurrent workers.  Each worker process has its
\* own _assignments_cache; all write data/ag_assignments.json through the
\* one temporary name of _save_json_atomic.  A worker's step is the code
\* between two accesses of the file system.
\* ------------------------------------------------------------------------
Workers == {"w1", "w2"}

WkRaces ==
    { [key |-> "IM703A", distance |-> "70.3", date |-> <<2025, 6, 1>>],
      [key |-> "IM703B", distance |-> "70.3", date |-> <<2025, 6, 1>>] }
WkAllKeys == { r.key : r \in WkRaces }
WkRaceOf(key) == CHOOSE r \in WkRaces : r.key = key

\* adjustments/manifest.json, the same for every worker
WkManifest ==
    << Version(1, "70.3", <<2025, 1, 1>>), Version(2, "70.3", <<2025, 6, 1>>) >>

\* Entries of the assignment document: none for the key, the form written
\* by get_adjustments_for_race, and the form written by
\* manage_ag_versions.py write (cmd_write, lines 100-118).
NoEntry == [kind |-> "absent"]
Legacy(id) == [kind |-> "legacy", adjustments_version |-> id]
PerDistance(d, id) == [kind |-> "per_distance", distance |-> d, id |-> id]
EmptyDoc == [k \in WkAllKeys |-> NoEntry]

\* A file by halves: what json.dump has put into each, none where nothing
\* is written (yet).
WkFile(h1, h2) == [kind |-> "file", h1 |-> h1, h2 |-> h2]
WkNoFile == WkFile(NoneVal, NoneVal)
WkWhole(doc) == WkFile(Loaded(doc), Loaded(doc))
InodeIds == 1..4

\* json.load of a file: the document if both halves are of one document
WkParses(f) == f.h1 # NoneVal /\ f.h1 = f.h2

\* ag_assignments.json as a reader finds it
WkPathFile == IF wkFs.path = 0 THEN WkNoFile ELSE wkInode[wkFs.path]

\* _load_assignments, lines 40-47: the cache, else the file; a missing file
\* is {}, one that does not parse raises (only FileNotFoundError is caught)
WkLoad(mem) ==
    IF mem # NoneVal THEN [raised |-> FALSE, mem |-> mem]
    ELSE IF wkFs.path = 0 THEN [raised |-> FALSE, mem |-> Loaded(EmptyDoc)]
    ELSE IF WkParses(WkPathFile)
         THEN [raised |-> FALSE, mem |-> WkPathFile.h1]
         ELSE [raised |-> TRUE, mem |-> NoneVal]

\* line 113: isinstance(existing, dict) and 'adjustments_version' in existing
HasAdjustmentsVersion(existing) == existing.kind = "legacy"

\* Mutant: an exception of the save leaves the call.
save_outcome_propagates(v, failed) == IF failed THEN AdjRaised ELSE AdjOk(v)

\* lines 136-143: an exception of _save_assignments is logged, the selected
\* version is returned either way
save_outcome(v, failed) == AdjOk(v)

WkSetPc(w, at) == wkPc' = [wkPc EXCEPT ![w] = at]

\* the assignments the file holds after the step join the history
WkRecord ==
    wkPersisted' =
        wkPersisted \cup
        (IF wkFs'.path # 0 /\ WkParses(wkInode'[wkFs'.path])
         THEN { <<k, wkInode'[wkFs'.path].h1.v[k]>> :
                    k \in { j \in WkAllKeys :
                              wkInode'[wkFs'.path].h1.v[j] # NoEntry } }
         ELSE {})

\* the call ends with outcome o
WkEnd(w, o) ==
    /\ WkSetPc(w, "idle")
    /\ wkRet' = [wkRet EXCEPT ![w] = o]

\* lines 106-135 after the load: an assignment with its version in the
\* manifest is returned, otherwise the date rule selects and the entry is
\* set in the worker's dict
WkResolve(w, key, doc) ==
    LET r == WkRaceOf(key)
        existing == doc[key]
        entry == IF HasAdjustmentsVersion(existing)
                 THEN find_version(WkManifest, r.distance,
                                   existing.adjustments_version)
                 ELSE NoVersion
        selected == select_version(WkManifest, r.distance, r.date)
    IN  IF entry # NoVersion
        THEN /\ WkEnd(w, AdjOk(entry))
             /\ wkMem' = [wkMem EXCEPT ![w] = Loaded(doc)]
             /\ UNCHANGED wkKey
        ELSE IF selected = NoVersion
        THEN /\ WkEnd(w, AdjRaised)
             /\ wkMem' = [wkMem EXCEPT ![w] = Loaded(doc)]
             /\ UNCHANGED wkKey
        ELSE /\ WkSetPc(w, "open")
             /\ wkMem' = [wkMem EXCEPT ![w] =
                            Loaded([doc EXCEPT ![key] = Legacy(selected.id)])]
             /\ wkKey' = [wkKey EXCEPT ![w] = key]
             /\ UNCHANGED wkRet

\* a call of get_adjustments_for_race up to the save, lines 106-135
WkCall(w) ==
    /\ wkPc[w] = "idle"
    /\ \E key \in wkKeys :
         IF WkLoad(wkMem[w]).raised
         THEN /\ WkEnd(w, AdjRaised)
              /\ UNCHANGED <<wkMem, wkKey>>
         ELSE WkResolve(w, key, WkLoad(wkMem[w]).mem.v)
    /\ UNCHANGED <<wkKeys, wkFs, wkInode, wkFd, wkPersisted>>
    /\ UNCHANGED nonWkVars

\* a file no name and no handle refers to
WkFreeInode ==
    CHOOSE i \in InodeIds :
        /\ i \notin {wkFs.path, wkFs.tmp} \cup { wkFd[w] : w \in Workers }
        /\ \A j \in InodeIds :
              j \notin {wkFs.path, wkFs.tmp} \cup { wkFd[w] : w \in Workers }
                 => i <= j

\* _save_json_atomic line 24, open(tmp_path, 'w'): the file of that name is
\* truncated, or a new one is created
WkOpen(w) ==
    /\ wkPc[w] = "open"
    /\ LET i == IF wkFs.tmp # 0 THEN wkFs.tmp ELSE WkFreeInode IN
         /\ wkFs' = [wkFs EXCEPT !.tmp = i]
         /\ wkInode' = [wkInode EXCEPT ![i] = WkNoFile]
         /\ wkFd' = [wkFd EXCEPT ![w] = i]
    /\ WkSetPc(w, "write1")
    /\ WkRecord
    /\ UNCHANGED <<wkKeys, wkKey, wkMem, wkRet>>
    /\ UNCHANGED nonWkVars

\* line 25, json.dump through the handle: the next half of the worker's
\* document reaches the file
WkWrite(w) ==
    /\ wkPc[w] \in {"write1", "write2"}
    /\ wkInode' = [wkInode EXCEPT ![wkFd[w]] =
                      IF wkPc[w] = "write1"
                      THEN [@ EXCEPT !.h1 = wkMem[w]]
                      ELSE [@ EXCEPT !.h2 = wkMem[w]]]
    /\ WkSetPc(w, IF wkPc[w] = "write1" THEN "write2" ELSE "replace")
    /\ UNCHANGED wkFs
    /\ WkRecord
    /\ UNCHANGED <<wkKeys, wkFd, wkKey, wkMem, wkRet>>
    /\ UNCHANGED nonWkVars

\* lines 25-26 and 136-143: the handle is closed and os.replace(tmp_path,
\* path) moves the file of the temporary name, FileNotFoundError if there is
\* none; the call returns
WkReplace(w) ==
    /\ wkPc[w] = "replace"
    /\ wkFs' = IF wkFs.tmp = 0 THEN wkFs ELSE [path |-> wkFs.tmp, tmp |-> 0]
    /\ wkFd' = [wkFd EXCEPT ![w] = 0]
    /\ WkEnd(w, save_outcome(
                   select_version(WkManifest, WkRaceOf(wkKey[w]).distance,
                                  WkRaceOf(wkKey[w]).date),
                   wkFs.tmp = 0))
    /\ UNCHANGED wkInode
    /\ WkRecord
    /\ UNCHANGED <<wkKeys, wkKey, wkMem>>
    /\ UNCHANGED nonWkVars

\* keys are the races asked about, found what ag_assignments.json may hold
\* when the workers start
InitWk(keys, found) ==
    /\ wkKeys = keys
    /\ \E f \in found :
         /\ wkFs = [path |-> IF f = WkNoFile THEN 0 ELSE 1, tmp |-> 0]
         /\ wkInode = [i \in InodeIds |-> IF i = 1 THEN f ELSE WkNoFile]
         /\ wkPersisted =
              IF f = WkNoFile THEN {}
              ELSE { <<k, f.h1.v[k]>> :
                        k \in { j \in WkAllKeys : f.h1.v[j] # NoEntry } }
    /\ wkFd = [w \in Workers |-> 0]
    /\ wkPc = [w \in Workers |-> "idle"]
    /\ wkKey = [w \in Workers |-> ""]
    /\ wkMem = [w \in Workers |-> NoneVal]
    /\ wkRet = [w \in Workers |-> NoneVal]

NextWk ==
    \/ \E w \in Workers : WkCall(w)
    \/ \E w \in Workers : WkOpen(w)
    \/ \E w \in Workers : WkWrite(w)
    \/ \E w \in Workers : WkReplace(w)

\* Races under the two fixed policies, with every total from 0 on, and a
\* per-gender mapping that names men only.
AnnFixedConfigs ==
    { [key |-> "IM140B", distance |-> "140.6", date |-> <<2025, 11, 13>>,
       slots |-> [kind |-> "int", n |-> n], slot_policy |-> "none",
       earliestStartTime |-> 1000000, ag_men |-> 1, ag_women |-> 1,
       has_start_urls |-> TRUE] : n \in 0..MaxSlots }
    \cup
    { [key |-> "IM703A", distance |-> "70.3", date |-> <<2025, 6, 1>>,
       slots |-> sl, slot_policy |-> "none",
       earliestStartTime |-> 1000000, ag_men |-> 1, ag_women |-> 1,
       has_start_urls |-> TRUE] :
        sl \in { [kind |-> "map", men |-> n, women |-> 1] : n \in 0..MaxSlots }
               \cup { [kind |-> "map", men |-> 2] } }

\* The records of the feeds whose results get annotated: all eligible.
AnnRecords ==
    { [time |-> Hms(0, 1, 30), division |-> <<"M", "1", "8", "-", "2", "4">>],
      [time |-> Hms(0, 1, 40), division |-> <<"M", "1", "8", "-", "2", "4">>],
      [time |-> Hms(0, 1, 40), division |-> <<"f", "4", "5", "4", "9">>] }

\* fetch_start_count is reached only through compute_dynamic_slots
FetchChoices(r) ==
    IF resolve_slot_policy(r) = "split-dynamic" /\ r.dynamic_slots = NoneVal
    THEN StartCounts ELSE {NoneVal}

\* the feed of a race to be annotated gains a record
AnnFeed ==
    /\ plrOut = NoneVal
    /\ Len(plrIn) < MaxRecords
    /\ \E rec \in AnnRecords : plrIn' = Append(plrIn, rec)
    /\ UNCHANGED <<plrOut, annVars, dynVars>>
    /\ UNCHANGED nonAnnVars

\* a call of annotate_slot_allocation on the graded list (app.py:605-608)
Annotate ==
    /\ plrOut.kind = "ret"
    /\ annOut = NoneVal
    /\ \E r \in { LoadRace(cfg, dynDisk) : cfg \in AnnFixedConfigs } \cup {dynRace},
          g \in Genders \cup {NoGender} :
        \E m \in FetchChoices(r), w \in FetchChoices(r) :
            LET res == annotate_slot_allocation(plrOut.v, r, g, dynCache,
                                                dynDisk, DynNow, m, w)
            IN  /\ annArgs' = [race |-> r, gender |-> g]
                /\ annOut' = res.out
                /\ dynRace' = IF r = dynRace THEN res.race ELSE dynRace
                /\ dynCache' = res.cache
                /\ dynDisk' = res.disk
                /\ dynCall' =
                     IF FetchChoices(r) = {NoneVal} THEN NoneVal
                     ELSE IF compute_dynamic_slots_fetches(r, DynNow)
                     THEN Asked("compute_dynamic_slots", m, w)
                     ELSE NotAsked("compute_dynamic_slots")
    /\ UNCHANGED <<dynClock, dynOut, plrVars>>
    /\ UNCHANGED nonAnnVars

\* the response is rendered; the next request starts from an empty feed
AnnTake ==
    /\ annOut # NoneVal
    /\ annOut' = NoneVal
    /\ annArgs' = NoneVal
    /\ plrOut' = NoneVal
    /\ plrIn' = <<>>
    /\ dynCall' = NoneVal
    /\ UNCHANGED <<dynClock, dynRace, dynDisk, dynCache, dynOut>>
    /\ UNCHANGED nonAnnVars

InitAnn ==
    /\ annArgs = NoneVal
    /\ annOut = NoneVal

NextAnn ==
    \/ AnnFeed
    \/ ProcessLiveResults
    \/ Annotate
    \/ AnnTake

\* What the other models keep in the pure-function variables.
InitFnRest == InitPlr /\ InitAnn /\ InitReq /\ InitGpr
InitFnIdle ==
    InitPol(PolIdleRaces) /\ InitFnRest /\ InitWk({"IM703A"}, {WkNoFile})

AllIdle == \A p \in Procs : pc[p] = "idle"

InitCacheOf(races, faulty) ==
    /\ clock = 0
    /\ race \in races
    /\ files = [f \in Paths |-> Absent]
    /\ ioFaults = faulty
    /\ pc = [p \in Procs |-> "idle"]
    /\ gen = [p \in Procs |-> NoGender]
    /\ stage = [p \in Procs |-> "in_progress"]
    /\ data = [p \in Procs |-> NoneVal]
    /\ fetches = [p \in Procs |-> 0]
    /\ hit = [p \in Procs |-> FALSE]
    /\ writes = [p \in Procs |-> 0]
    /\ observed = [p \in Procs |-> "-"]

InitCache(faulty) == InitCacheOf(CacheRaces, faulty)

Step(p) ==
    \/ FinalRead(p)
    \/ Fresh(p)
    \/ InprogRead(p)
    \/ Grade(p)
    \/ WriteOpen(p)
    \/ WriteDump(p)
    \/ Return(p)

\* Requests one after the other: a call starts only when no call is running.
BeginSeq(p, gender) == AllIdle /\ Begin(p, gender)

NextSeq ==
    \/ \E p \in Procs, g \in Genders \cup {NoGender} : BeginSeq(p, g)
    \/ \E p \in Procs : Step(p)
    \/ Tick

\* Concurrent requests: every interleaving of the steps.
NextConc ==
    \/ \E p \in Procs, g \in Genders \cup {NoGender} : Begin(p, g)
    \/ \E p \in Procs : Step(p)
    \/ Tick

\* The cache model: requests one after the other, and concurrent requests.
\* The race the other models keep loaded in the dynamic-slot subsystem.
DynIdleConfigs ==
    { c \in DynRaceConfigs :
        /\ c.key = "IM140C" /\ c.slots.n = 5
        /\ c.ag_men = 1 /\ c.ag_women = 1
        /\ c.earliestStartTime > 0 /\ c.has_start_urls }

Init == InitCache(FALSE) /\ InitAdj /\ InitDyn(DynIdleConfigs) /\ InitFnIdle
Spec == Init /\ [][NextSeq]_vars
SpecConc == Init /\ [][NextConc]_vars

\* The cache model for races with and without a start time: a race whose
\* earliestStartTime is missing or 0 reads as 0 at line 489.
CacheRacesAnyStart ==
    CacheRaces \cup { [r EXCEPT !.earliestStartTime = 0] : r \in CacheRaces }
InitStartSpec ==
    /\ InitCacheOf(CacheRacesAnyStart, FALSE)
    /\ InitAdj
    /\ InitDyn(DynIdleConfigs)
    /\ InitFnIdle
SpecStart == InitStartSpec /\ [][NextSeq]_vars

\* The adjustments model; the cache is idle and a save may fail.
InitAdjSpec ==
    /\ InitCache(TRUE)
    /\ race = CHOOSE r \in CacheRaces : r.key = AdjRace.key
    /\ InitAdj
    /\ InitDyn(DynIdleConfigs)
    /\ InitFnIdle
SpecAdj == InitAdjSpec /\ [][NextAdj]_vars

\* The dynamic-slot model; the cache and the adjustments are idle.
InitDynSpec ==
    /\ InitCache(TRUE)
    /\ race = CHOOSE r \in CacheRaces : r.key = "IM140C"
    /\ InitAdj
    /\ InitDyn(DynRaceConfigs)
    /\ InitFnIdle
SpecDyn == InitDynSpec /\ [][NextDyn]_vars

\* The dynamic-slot model under repeated requests: compute_dynamic_slots is
\* called again and again (every page load of a split-dynamic race calls
\* it, app.py:474-489 and 556-610), each call returns to its caller, and
\* time passes.
SpecDynLive ==
    /\ SpecDyn
    /\ SF_vars(ComputeDynamicSlots)
    /\ WF_vars(DynReturn)
    /\ WF_vars(DynTick)

\* The stateful subsystems at rest, for the models of single functions.
InitIdle ==
    /\ InitCache(TRUE)
    /\ race = CHOOSE r \in CacheRaces : r.key = "IM140C"
    /\ InitAdj
    /\ InitDyn(DynIdleConfigs)

\* The slot-policy model.
InitPolSpec ==
    InitIdle /\ InitPol(PolRaces) /\ InitFnRest /\ InitWk({"IM703A"}, {WkNoFile})
SpecPol == InitPolSpec /\ [][NextPol]_vars

\* The grading model.
InitPlrSpec == InitIdle /\ InitFnIdle
SpecPlr == InitPlrSpec /\ [][NextPlr]_vars

\* The annotation model: the process may have started before or after the
\* end of the stabilization window.
InitAnnSpec ==
    /\ InitCache(TRUE)
    /\ race = CHOOSE r \in CacheRaces : r.key = "IM140C"
    /\ InitAdj
    /\ InitDynAt(DynIdleConfigs, {0, 1})
    /\ InitFnIdle
SpecAnn == InitAnnSpec /\ [][NextAnn]_vars

\* Two workers asked about one race that has no assignment yet: there is
\* no assignment file, or one without an entry for the race.
WkFirstTimeFiles ==
    { WkNoFile, WkWhole(EmptyDoc),
      WkWhole([EmptyDoc EXCEPT !["IM703B"] = Legacy(1)]) }
InitWkSameSpec == InitIdle /\ InitPol(PolIdleRaces) /\ InitFnRest
                  /\ InitWk({"IM703A"}, WkFirstTimeFiles)
SpecWkSame == InitWkSameSpec /\ [][NextWk]_vars

\* Two workers asked about two races, no assignment file yet.
InitWkRacesSpec == InitIdle /\ InitPol(PolIdleRaces) /\ InitFnRest
                   /\ InitWk(WkAllKeys, {WkNoFile})
SpecWkRaces == InitWkRacesSpec /\ [][NextWk]_vars

\* Workers started on an assignment file written by manage_ag_versions.py
\* write.
WkToolFiles ==
    { WkWhole([EmptyDoc EXCEPT !["IM703A"] = PerDistance("70.3", id)]) :
        id \in {1, 2} }
InitWkToolSpec == InitIdle /\ InitPol(PolIdleRaces) /\ InitFnRest
                  /\ InitWk({"IM703A"}, WkToolFiles)
SpecWkTool == InitWkToolSpec /\ [][NextWk]_vars

\* The model of get_processed_results.
InitGprSpec == InitIdle /\ InitFnIdle
SpecGpr == InitGprSpec /\ [][NextGpr]_vars

\* The model of concurrent split-dynamic requests for one race.
InitReqSpec ==
    /\ InitCache(TRUE)
    /\ race = CHOOSE r \in CacheRaces : r.key = "IM140C"
    /\ InitAdj
    /\ InitDynAt(DynIdleConfigs, {0, 1})
    /\ InitFnIdle
SpecReq == InitReqSpec /\ [][NextReq]_vars

\* ------------------------------------------------------------------------
\* Properties of the result cache
\* ------------------------------------------------------------------------
FinalPaths ==
    { get_cache_file_path(r, "final", g) :
        r \in CacheRaces, g \in Genders \cup {NoGender} }

\* A final file that holds a complete document keeps that document.
FinalDocKept ==
    \A f \in FinalPaths :
        files[f].kind = "doc" =>
            files'[f].kind = "doc" /\ files'[f].doc = files[f].doc

\* What a finished call in the final window did.
FinalCallOutcome(p) ==
    IF hit[p]
    THEN /\ fetches[p] = 0
         /\ writes[p] = 0
         /\ files[final_path(p)].kind = "doc"
         /\ data[p] = JsonLoad(files[final_path(p)].doc)
    ELSE /\ fetches[p] = 1
         /\ \/ IsError(data[p])
            \/ /\ files[final_path(p)].kind = "doc"
               /\ files[final_path(p)].doc = JsonDump(data[p])

\* C1: for calls made one after the other once the final window is reached,
\* the first call that finds no final entry and whose grader succeeds makes
\* exactly one grading pass and writes the final entry; every later call
\* returns the entry's content as it is, makes no fetch, and the entry's
\* content never changes.
C1_FinalWrittenOnceThenServed ==
    /\ [](\A p \in Procs :
            (pc[p] = "done" /\ stage[p] = "final") => FinalCallOutcome(p))
    /\ [][FinalDocKept]_vars

\* C1 witness: a later call has been served from the final entry.
C1_Witness ==
    \E p \in Procs :
        /\ pc[p] = "done" /\ stage[p] = "final" /\ hit[p]
        /\ data[p].kind = "list" /\ data[p].snap = 2

\* C2: under every interleaving of concurrent calls in the final window, a
\* final entry that has been written is never written again.
C2_FinalNeverRewritten ==
    [][\A f \in FinalPaths : files[f].kind = "doc" => files'[f] = files[f]]_vars

\* The decision of the freshness check, stated on the entry's age.
FreshDecision(p) ==
    (pc[p] = "fresh" /\ pc'[p] # "fresh") =>
        LET f == files[inprog_path(p)] IN
        IF f.kind # "absent" /\ Now - f.mtime <= CACHE_FRESHNESS_SECONDS
        THEN pc'[p] = "inprog_read"
        ELSE pc'[p] = "grade"

\* What a finished call before the final window did.
InprogCallOutcome(p) ==
    IF hit[p]
    THEN /\ fetches[p] = 0
         /\ writes[p] = 0
         /\ files[inprog_path(p)].kind = "doc"
         /\ data[p] = JsonLoad(files[inprog_path(p)].doc)
    ELSE /\ fetches[p] = 1
         /\ \/ IsError(data[p])
            \/ /\ files[inprog_path(p)].kind = "doc"
               /\ files[inprog_path(p)].doc = JsonDump(data[p])

\* C3: before the final window, a call that finds the in-progress entry with
\* age <= CACHE_FRESHNESS_SECONDS returns the data of the prior write without
\* a fetch; when the entry is absent or older the grader is invoked and, on
\* success, its result overwrites the entry.
C3_FreshServedStaleRefetched ==
    /\ [](\A p \in Procs :
            (pc[p] = "done" /\ stage[p] = "in_progress") => InprogCallOutcome(p))
    /\ [][\A p \in Procs : FreshDecision(p)]_vars

\* C3 witness: an entry exactly CACHE_FRESHNESS_SECONDS old has been served.
C3_Witness ==
    \E p \in Procs :
        /\ pc[p] = "done" /\ stage[p] = "in_progress" /\ hit[p]
        /\ Now - files[inprog_path(p)].mtime = CACHE_FRESHNESS_SECONDS

\* C3 witness of the other branch: a stale entry has been overwritten.
C3_WitnessStale ==
    \E p \in Procs :
        /\ pc[p] = "done" /\ stage[p] = "in_progress" /\ ~hit[p]
        /\ writes[p] = 2 /\ data[p].kind = "list" /\ data[p].snap = 2

\* C4: when the grader returns an error the call returns it and modifies no
\* cache file; no error is ever stored or served from a cache entry, so a
\* later call in the same situation invokes the grader again.
C4_ErrorNotCached ==
    /\ [](\A p \in Procs :
            /\ (pc[p] = "done" /\ IsError(data[p])) =>
                    writes[p] = 0 /\ fetches[p] = 1 /\ ~hit[p]
            /\ (pc[p] = "done" /\ ~hit[p]) => fetches[p] = 1)
    /\ [](\A f \in Paths : files[f].kind = "doc" => files[f].doc.kind = "list")
    /\ [][\A p \in Procs :
            (pc[p] = "grade" /\ pc'[p] = "done") =>
                (files' = files /\ IsError(data'[p]))]_vars

\* C4 witness: an error has been returned while a cache entry exists.
C4_Witness ==
    \E p \in Procs :
        /\ pc[p] = "done" /\ IsError(data[p])
        /\ files[target_path(p)].kind = "doc"

\* C5: under a policy that needs gender, a request for one gender never
\* returns data fetched for the other gender.
C5_GenderEntriesDistinct ==
    \A p \in Procs :
        (pc[p] = "done" /\ data[p].kind = "list"
            /\ policy_needs_gender(resolve_slot_policy(race)))
        => data[p].g = gen[p]

\* C6: a read of a cache file never observes an empty or partly written
\* document.
C6_ReadsSeeCompleteDocuments ==
    \A p \in Procs : observed[p] # "partial"

\* ------------------------------------------------------------------------
\* Properties of the adjustment-version lock
\* ------------------------------------------------------------------------
\* The step that runs get_adjustments_for_race.
AdjCallStep == adjOut = NoneVal /\ adjOut' # NoneVal

Listed(manifest, distance, id) ==
    \E i \in 1..Len(manifest) :
        manifest[i].distance = distance /\ manifest[i].id = id

\* Versions of the race's distance whose effective_from is not after the
\* race date.
Eligible(manifest, r) ==
    { i \in 1..Len(manifest) :
        /\ manifest[i].distance = r.distance
        /\ parse_date(manifest[i].effective_from) <= parse_date(r.date) }

\* C7: once an assignment is persisted for a race, a call returns the
\* assigned version id and its factor table whatever versions the manifest
\* has gained since, also after a restart that reloads the manifest.
C7_PersistedVersionReturned ==
    [][AdjCallStep =>
        LET v == assignDisk[AdjRace.key] IN
        (v # NoAssign /\ Listed(manifestCache'.v, AdjRace.distance, v)) =>
            /\ adjOut'.kind = "ok"
            /\ adjOut'.id = v
            /\ adjOut'.factors = FileOf(v)]_vars

\* C7 witness: the assigned version was returned although the manifest now
\* holds a later version that the date rule would pick.
C7_Witness ==
    /\ adjOut.kind = "ok"
    /\ assignDisk[AdjRace.key] = adjOut.id
    /\ \E i \in Eligible(manifestCache.v, AdjRace),
          j \in Eligible(manifestCache.v, AdjRace) :
            /\ manifestCache.v[j].id = adjOut.id
            /\ parse_date(manifestCache.v[j].effective_from)
                 < parse_date(manifestCache.v[i].effective_from)

C9_LatestEffectiveSelected ==
    [][(AdjCallStep /\ load_assignments[AdjRace.key] = NoAssign) =>
        LET m == manifestCache'.v
            elig == Eligible(m, AdjRace)
        IN  IF elig = {}
            THEN /\ adjOut' = AdjRaised
                 /\ assignDisk' = assignDisk
                 /\ assignCache'.v[AdjRace.key] = NoAssign
            ELSE /\ adjOut'.kind = "ok"
                 /\ \E i \in elig :
                      /\ m[i].id = adjOut'.id
                      /\ m[i].file = adjOut'.factors
                      /\ \A j \in elig :
                           parse_date(m[j].effective_from)
                             <= parse_date(m[i].effective_from)
                 /\ assignCache'.v[AdjRace.key] = adjOut'.id
                 /\ assignDisk'[AdjRace.key] \in {adjOut'.id, NoAssign}]_vars

\* C9 witness: a first resolution chose between two qualifying versions of
\* different dates and stored its choice.
C9_Witness ==
    /\ adjOut.kind = "ok"
    /\ assignDisk[AdjRace.key] = adjOut.id
    /\ \E i \in Eligible(manifestCache.v, AdjRace) :
        /\ manifestCache.v[i].id # adjOut.id
        /\ \E j \in Eligible(manifestCache.v, AdjRace) :
            /\ manifestCache.v[j].id = adjOut.id
            /\ parse_date(manifestCache.v[i].effective_from)
                 < parse_date(manifestCache.v[j].effective_from)

\* C9 witness of the error: no version qualifies, the call raised.
C9_WitnessRaised ==
    /\ adjOut = AdjRaised
    /\ Len(manifestCache.v) = MaxVersions

\* ------------------------------------------------------------------------
\* Properties of the dynamic-slot persistence
\* ------------------------------------------------------------------------
\* C10: a failed persistence write is swallowed locally; get_started_counts
\* and compute_dynamic_slots still return their in-memory result and no
\* exception reaches the caller.
C10_PersistFailureSwallowed == dynOut # DynRaised

\* ------------------------------------------------------------------------
\* Properties of the slot policy
\* ------------------------------------------------------------------------
\* C11: a recognized slot_policy value is returned unchanged whatever the
\* slots shape, distance and date are; an unrecognized or non-string value
\* is ignored, i.e. the result is that of the same race without the field.
C11_OverrideWins ==
    polOut # NoneVal =>
        IF polRace.slot_policy \in {"combined-fixed", "split-fixed", "split-dynamic"}
        THEN polOut.v = polRace.slot_policy
        ELSE polOut.v = resolve_slot_policy([polRace EXCEPT !.slot_policy = "none"])

\* C11 witness: the override combined-fixed won over a per-gender slots
\* mapping on a 140.6 race dated after the policy change.
C11_Witness ==
    /\ polOut = PolRet("combined-fixed")
    /\ polRace.slot_policy = "combined-fixed"
    /\ polRace.slots = [kind |-> "map", men |-> 3, women |-> 2]
    /\ polRace.distance = "140.6"
    /\ polRace.date = <<2026, 1, 1>>

\* A well-formed date that is not before b, in calendar order.
DateAtLeast(d, b) == Len(d) = 3 /\ ~StrLess(d, b)

\* C12: without a recognized override and without a per-gender slots
\* mapping a 140.6 race is split-dynamic exactly from 2025-11-14 on and
\* combined-fixed before; a 70.3 race without override is split-fixed for
\* every date.
C12_DateBoundary ==
    (polOut # NoneVal
        /\ polRace.slot_policy \notin {"combined-fixed", "split-fixed", "split-dynamic"}) =>
        /\ (polRace.distance = "140.6"
              /\ ~("men" \in DOMAIN polRace.slots \/ "women" \in DOMAIN polRace.slots)) =>
                polOut.v = IF DateAtLeast(polRace.date, <<2025, 11, 14>>)
                           THEN "split-dynamic" ELSE "combined-fixed"
        /\ polRace.distance = "70.3" => polOut.v = "split-fixed"

\* C12 witness: a 140.6 race dated 2025-11-14 resolved to split-dynamic.
C12_Witness ==
    /\ polOut = PolRet("split-dynamic")
    /\ polRace.slot_policy \notin AllowedPolicies
    /\ polRace.distance = "140.6"
    /\ polRace.date = <<2025, 11, 14>>

\* C12 witness on the other side of the boundary.
C12_WitnessBefore ==
    /\ polOut = PolRet("combined-fixed")
    /\ polRace.slot_policy \notin AllowedPolicies
    /\ polRace.distance = "140.6"
    /\ polRace.date = <<2025, 11, 13>>

\* ------------------------------------------------------------------------
\* Properties of the grading
\* ------------------------------------------------------------------------
\* C13: a returned result set is in ascending graded-time order and each
\* entry's graded_place is 1 + the number of entries with a strictly
\* smaller graded time, so ties share a place and the entry after a tie
\* block of length k starting at position p has place p + k.
C13_GradedPlaceCompetition ==
    plrOut.kind = "ret" =>
        LET res == plrOut.v IN
        /\ \A i \in 1..Len(res), j \in 1..Len(res) :
             i < j => res[i].graded_time_seconds <= res[j].graded_time_seconds
        /\ \A i \in 1..Len(res) :
             res[i].graded_place =
                1 + Cardinality({ j \in 1..Len(res) :
                        res[j].graded_time_seconds < res[i].graded_time_seconds })

\* C13 witness: a tie block of two followed by a slower entry, places 1, 1, 3.
C13_Witness ==
    /\ plrOut.kind = "ret"
    /\ Len(plrOut.v) = 3
    /\ plrOut.v[1].graded_time_seconds = plrOut.v[2].graded_time_seconds
    /\ plrOut.v[2].graded_time_seconds < plrOut.v[3].graded_time_seconds
    /\ plrOut.v[1].graded_place = 1
    /\ plrOut.v[2].graded_place = 1
    /\ plrOut.v[3].graded_place = 3

\* C14: within a returned result set the ag_place values of each age
\* group, read in graded-time order, are 1, 2, ..., n, whatever ties and
\* other groups' entries lie between; exactly one entry of each age group
\* present has ag_place 1.
C14_AgPlaceDense ==
    plrOut.kind = "ret" =>
        LET res == plrOut.v IN
        /\ \A i \in 1..Len(res) :
             res[i].ag_place =
                Cardinality({ j \in 1..i : res[j].age_group = res[i].age_group })
        /\ \A i \in 1..Len(res) :
             Cardinality({ j \in 1..Len(res) :
                             /\ res[j].age_group = res[i].age_group
                             /\ res[j].ag_place = 1 }) = 1

\* C14 witness: two athletes of one age group tie on graded time, with an
\* entry of another group in the result set; they have ag_place 1 and 2.
C14_Witness ==
    /\ plrOut.kind = "ret"
    /\ \E i \in 1..Len(plrOut.v), j \in 1..Len(plrOut.v), k \in 1..Len(plrOut.v) :
        /\ i < j
        /\ plrOut.v[i].age_group = plrOut.v[j].age_group
        /\ plrOut.v[i].graded_time_seconds = plrOut.v[j].graded_time_seconds
        /\ plrOut.v[i].ag_place = 1
        /\ plrOut.v[j].ag_place = 2
        /\ plrOut.v[k].age_group # plrOut.v[i].age_group

\* The divisions the filter is to accept, with their normal form; every
\* other division of the feed is to be dropped.
ExpectedAgeGroup(division) ==
    IF division \in { <<"M", "1", "8", "-", "2", "4">>,
                      <<" ", "M", "1", "8", " ", "-", " ", "2", "4", " ">> }
    THEN <<"M", "1", "8", "-", "2", "4">>
    ELSE IF division = <<"f", "4", "5", "4", "9">>
    THEN <<"F", "4", "5", "-", "4", "9">>
    ELSE <<>>

EligibleAgeGroups ==
    { <<"M", "1", "8", "-", "2", "4">>, <<"F", "4", "5", "-", "4", "9">> }

\* How many entries of the result set carry the age group.
KeptCount(res, ag) ==
    Cardinality({ i \in 1..Len(res) : res[i].age_group = ag })

AnnFlagged ==
    /\ annOut.kind = "ret"
    /\ \A i \in 1..Len(annOut.v) : "ag_winner" \in DOMAIN annOut.v[i]

AnnPolicy == resolve_slot_policy(annArgs.race)

\* The total slot count the call worked with (0 when a split-dynamic race
\* has no allocation for the gender).
AnnTotalSlots ==
    IF AnnPolicy \in {"split-fixed", "combined-fixed"}
    THEN FixedTotalSlots(AnnPolicy, annArgs.race, annArgs.gender)
    ELSE IF dynRace.dynamic_slots # NoneVal /\ annArgs.gender \in Genders
    THEN dynRace.dynamic_slots[annArgs.gender].total_slots
    ELSE 0

\* C16: with total_slots > 0 the pool qualifiers are exactly the first
\* min(R, number of non-winners) non-winner entries in graded-time order,
\* R = max(0, total_slots - number of age groups having a winner); hence
\* no passed-over non-winner precedes a qualifier, and there is no
\* qualifier when total_slots <= number of winning age groups.
C16_PoolQualifiersAreFirstNonWinners ==
    /\ (annOut.kind = "ret" /\ AnnPolicy \in {"split-fixed", "combined-fixed"})
            => AnnFlagged
    /\ (AnnFlagged /\ AnnTotalSlots > 0) =>
        LET res == annOut.v
            winning == { res[i].age_group :
                           i \in { j \in 1..Len(res) : res[j].ag_winner } }
            nonWinners == { i \in 1..Len(res) : ~res[i].ag_winner }
            R == IF AnnTotalSlots - Cardinality(winning) < 0 THEN 0
                 ELSE AnnTotalSlots - Cardinality(winning)
        IN  \A i \in 1..Len(res) :
                res[i].pool_qualifier <=>
                    /\ i \in nonWinners
                    /\ Cardinality({ j \in nonWinners : j < i }) < R

\* C16 witness: one winning age group and two slots; of two non-winners the
\* faster one is a pool qualifier, the other is not.
C16_Witness ==
    /\ AnnFlagged
    /\ AnnTotalSlots = 2
    /\ \E i \in 1..Len(annOut.v), j \in 1..Len(annOut.v), k \in 1..Len(annOut.v) :
        /\ i < j
        /\ j < k
        /\ annOut.v[i].ag_winner
        /\ ~annOut.v[j].ag_winner /\ annOut.v[j].pool_qualifier
        /\ ~annOut.v[k].ag_winner /\ ~annOut.v[k].pool_qualifier

\* C16 witness with as many winning age groups as slots: no qualifier.
C16_WitnessNoPool ==
    /\ AnnFlagged
    /\ AnnTotalSlots = 2
    /\ Cardinality({ i \in 1..Len(annOut.v) : annOut.v[i].ag_winner }) = 2
    /\ \E i \in 1..Len(annOut.v) : ~annOut.v[i].ag_winner
    /\ \A i \in 1..Len(annOut.v) : ~annOut.v[i].pool_qualifier

\* C17: under a fixed policy, for every total slot count, 0 included, every
\* entry with ag_place = 1 is marked ag_winner.
C17_WinnersMarkedForEveryTotal ==
    (annOut.kind = "ret" /\ AnnPolicy \in {"split-fixed", "combined-fixed"}) =>
        /\ AnnFlagged
        /\ \A i \in 1..Len(annOut.v) :
             annOut.v[i].ag_place = 1 => annOut.v[i].ag_winner

\* ------------------------------------------------------------------------
\* Properties of the dynamic slot calculator
\* ------------------------------------------------------------------------
\* C18: an allocation computed from starter counts with a positive sum has
\* performance_pool = max(0, total_slots - winner slots), a men's pool that
\* is performance_pool * men_started / total_started rounded to a nearest
\* integer, and a women's pool that is the remainder; both pools are >= 0
\* and sum to performance_pool.
C18_PoolSplit ==
    dynRace.dynamic_slots # NoneVal =>
        LET a == dynRace.dynamic_slots
            men_started == dynRace.started_counts.men
            women_started == dynRace.started_counts.women
            total_started == men_started + women_started
            winners == dynRace.ag_men + dynRace.ag_women
            pool == IF dynRace.slots.n - winners < 0 THEN 0
                    ELSE dynRace.slots.n - winners
            twice == 2 * (a.men.pool_slots * total_started - pool * men_started)
        IN  /\ total_started > 0
            /\ a.men.winner_slots = dynRace.ag_men
            /\ a.women.winner_slots = dynRace.ag_women
            /\ twice <= total_started /\ -twice <= total_started
            /\ a.women.pool_slots = pool - a.men.pool_slots
            /\ a.men.pool_slots >= 0 /\ a.women.pool_slots >= 0
            /\ a.men.pool_slots + a.women.pool_slots = pool
            /\ a.men.total_slots = a.men.winner_slots + a.men.pool_slots
            /\ a.women.total_slots = a.women.winner_slots + a.women.pool_slots

\* C18 witness: a pool of 2 with starters 1 and 2 is split 1 and 1 (two
\* thirds of a slot rounded up for the men).
C18_Witness ==
    /\ dynRace.dynamic_slots # NoneVal
    /\ dynRace.started_counts.men = 1
    /\ dynRace.started_counts.women = 2
    /\ dynRace.slots.n - (dynRace.ag_men + dynRace.ag_women) = 2
    /\ dynRace.dynamic_slots.men.pool_slots = 1
    /\ dynRace.dynamic_slots.women.pool_slots = 1

\* C18 witness of the clamp: more winner slots than slots, both pools 0.
C18_WitnessClamp ==
    /\ dynRace.dynamic_slots # NoneVal
    /\ dynRace.slots.n < dynRace.ag_men + dynRace.ag_women
    /\ dynRace.dynamic_slots.men.pool_slots = 0
    /\ dynRace.dynamic_slots.women.pool_slots = 0

\* ------------------------------------------------------------------------
\* Properties of concurrent split-dynamic requests
\* ------------------------------------------------------------------------
\* the allocation on the race object is also the one in the persistence
\* document _dynamic_cache_data
AllocationPersisted ==
    /\ dynRace.dynamic_slots # NoneVal
    /\ dynCache # NoneVal
    /\ dynCache.v[dynRace.key] # NoneVal
    /\ dynCache.v[dynRace.key].dynamic_slots = dynRace.dynamic_slots

SameSplit(a, b) == a.men = b.men /\ a.women = b.women

\* C19: under every interleaving of concurrent split-dynamic requests for
\* one race, once an allocation has been stored on the race and persisted
\* no later step replaces it with a different split.
C19_StoredAllocationKept ==
    [][AllocationPersisted =>
          /\ dynRace'.dynamic_slots # NoneVal
          /\ SameSplit(dynRace'.dynamic_slots, dynRace.dynamic_slots)]_vars

\* ------------------------------------------------------------------------
\* Properties of the dynamic-slot persistence across a restart
\* ------------------------------------------------------------------------
\* C20: after compute_dynamic_slots has produced an allocation for a race,
\* the race object rebuilt by a process restart (races.json reloaded,
\* hydrate_race_dynamic run) carries the same allocation, read back from
\* durable storage, so that the next request has nothing to fetch or
\* recompute.
C20_RestartKeepsAllocation ==
    [][(DynRestart /\ dynRace.dynamic_slots # NoneVal) =>
          dynRace'.dynamic_slots = dynRace.dynamic_slots]_vars

\* ------------------------------------------------------------------------
\* Properties of the prerequisites of the dynamic slot calculator
\* ------------------------------------------------------------------------
\* a compute_dynamic_slots call has just run from the state before the step
ComputeCallStep ==
    /\ dynOut = NoneVal
    /\ dynOut' # NoneVal
    /\ dynCall'.fn = "compute_dynamic_slots"

\* the prerequisite that fails for the call of the step
PolicyNotDynamic == resolve_slot_policy(dynRace) # "split-dynamic"
StartUnknown == dynRace.earliestStartTime <= 0
BeforeWindow == DynNow < dynRace.earliestStartTime + 3600
SlotsNotPositive == TotalSlots(dynRace) <= 0
NoAgeGroups == dynRace.ag_men = 0 /\ dynRace.ag_women = 0
CountUnobtainable ==
    \/ /\ dynCall'.asked
       /\ (dynCall'.men = NoneVal \/ dynCall'.women = NoneVal)
    \/ /\ ~dynRace.has_start_urls
       /\ dynRace.started_counts = NoneVal

\* C21: a compute_dynamic_slots call of which a prerequisite fails (policy
\* not split-dynamic, earliestStartTime unknown, now before
\* earliestStartTime + 3600, slots total not positive, no age-group
\* category, a starter count unobtainable) returns None without raising and
\* leaves the race's dynamic_slots and the persisted document unchanged;
\* before earliestStartTime + 3600 it requests no starter count upstream.
C21_NotReadyLeavesStateAlone ==
    [][(/\ ComputeCallStep
        /\ \/ PolicyNotDynamic \/ StartUnknown \/ BeforeWindow
           \/ SlotsNotPositive \/ NoAgeGroups \/ CountUnobtainable)
       => /\ dynOut' = DynRet(NoneVal)
          /\ dynRace'.dynamic_slots = dynRace.dynamic_slots
          /\ dynDisk' = dynDisk
          /\ (BeforeWindow => ~dynCall'.asked)]_vars

\* C21 witness: after the window a call whose women's start list gave no
\* count has returned None.
C21_Witness ==
    /\ dynCall # NoneVal
    /\ dynCall.fn = "compute_dynamic_slots"
    /\ dynCall.asked
    /\ dynCall.men # NoneVal
    /\ dynCall.women = NoneVal
    /\ dynOut = DynRet(NoneVal)

\* C21 witness of the window: a call before earliestStartTime + 3600 has
\* returned None and asked nothing.
C21_WitnessBeforeWindow ==
    /\ dynCall # NoneVal
    /\ dynCall.fn = "compute_dynamic_slots"
    /\ ~dynCall.asked
    /\ resolve_slot_policy(dynRace) = "split-dynamic"
    /\ dynRace.earliestStartTime > 0
    /\ DynNow < dynRace.earliestStartTime + 3600
    /\ TotalSlots(dynRace) > 0
    /\ dynOut = DynRet(NoneVal)

\* ------------------------------------------------------------------------
\* Properties of get_processed_results
\* ------------------------------------------------------------------------
\* the feeds the running call fetched and that did not fail
GprFetchedOk ==
    { d \in { IF g = "men" THEN gprArgs.men ELSE gprArgs.women :
                g \in gprOut.fetched } : ~HasError(d) }

\* the feeds returned records, and no record the call got survives the
\* finish-time and division filters
GprNoneSurvives ==
    /\ gprOut # NoneVal
    /\ GprFetchedOk # {}
    /\ \E d \in GprFetchedOk : FeedList(d) # <<>>
    /\ \A d \in GprFetchedOk :
         \A i \in 1..Len(FeedList(d)) :
            /\ FeedList(d)[i].time.kind = "hms"
            /\ ~ag_pattern_match(StripWhitespace(FeedList(d)[i].division))

\* C22: when the feeds return records of which none survives the filters,
\* get_processed_results returns the "no live data found" error object, not
\* an empty list, so that the caching wrapper writes nothing.
C22_NoSurvivorIsError ==
    GprNoneSurvives =>
        /\ gprOut.out = FeedError("No live data found for the selected race.")
        /\ ~CacheWrites(gprOut.out)

\* the running call's policy needs a gender, and the feed it then fetches
GprNeedsGender == policy_needs_gender(resolve_slot_policy(gprArgs.race))
GprGender == IF gprArgs.gender = NoGender THEN "men" ELSE gprArgs.gender
GprOwnFeed == IF GprGender = "men" THEN gprArgs.men ELSE gprArgs.women
GprRanking(list) ==
    IF process_live_results(list) = PlrRaised THEN GprRaised
    ELSE GprList(process_live_results(list).v)

\* C23 as stated: under a policy that does not need gender both feeds are
\* fetched, the call returns an error only if both feeds return an error,
\* and with exactly one failing feed the result is the graded ranking of the
\* other feed's records; under a policy that needs gender exactly one feed
\* (the given gender, men when none) is fetched and its error returned as is.
C23_ErrorOnlyIfBothFeedsFail ==
    gprOut # NoneVal =>
        IF GprNeedsGender
        THEN /\ gprOut.fetched = {GprGender}
             /\ (HasError(GprOwnFeed) => gprOut.out = GprOwnFeed)
        ELSE /\ gprOut.fetched = {"men", "women"}
             /\ (HasError(gprOut.out) =>
                    HasError(gprArgs.men) /\ HasError(gprArgs.women))
             /\ (HasError(gprArgs.men) /\ ~HasError(gprArgs.women) =>
                    gprOut.out = GprRanking(FeedList(gprArgs.women)))
             /\ (~HasError(gprArgs.men) /\ HasError(gprArgs.women) =>
                    gprOut.out = GprRanking(FeedList(gprArgs.men)))

\* C23, amended: under a policy that needs gender exactly one feed is
\* fetched and its error returned as is.  Under a policy that does not, a
\* distance other than 70.3 and 140.6 is an error before any fetch;
\* otherwise both feeds are fetched, two failing feeds give the men's error,
\* and in every other case the records of the feeds that did not fail are
\* put together: none at all is the "no live data found" error, otherwise
\* the result is that of grading them (with one failing feed, the other
\* feed's records alone).
C23_FeedFailureTolerated ==
    gprOut # NoneVal =>
        IF GprNeedsGender
        THEN /\ gprOut.fetched = {GprGender}
             /\ (HasError(GprOwnFeed) => gprOut.out = GprOwnFeed)
        ELSE IF gprArgs.race.distance \notin {"70.3", "140.6"}
        THEN /\ gprOut.fetched = {}
             /\ HasError(gprOut.out)
        ELSE /\ gprOut.fetched = {"men", "women"}
             /\ IF HasError(gprArgs.men) /\ HasError(gprArgs.women)
                THEN gprOut.out = gprArgs.men
                ELSE LET records == FeedList(gprArgs.men)
                                        \o FeedList(gprArgs.women)
                     IN  IF records = <<>>
                         THEN gprOut.out = FeedError(
                                "No live data found for the selected race.")
                         ELSE gprOut.out = GprRanking(records)

\* C23 witness: combined policy, the men's feed fails, the women's feed has
\* a record that is graded; the call returned the ranking of that record.
C23_Witness ==
    /\ gprOut # NoneVal
    /\ ~GprNeedsGender
    /\ HasError(gprArgs.men)
    /\ ~HasError(gprArgs.women)
    /\ gprOut.out.kind = "list"
    /\ Len(gprOut.out.v) = 1
    /\ gprOut.out = GprRanking(FeedList(gprArgs.women))

\* C23 witness under a policy that needs gender: the one feed fetched
\* failed and its error object came back.
C23_WitnessGender ==
    /\ gprOut # NoneVal
    /\ GprNeedsGender
    /\ gprArgs.gender = NoGender
    /\ gprOut.fetched = {"men"}
    /\ HasError(gprArgs.men)
    /\ ~HasError(gprArgs.women)
    /\ gprOut.out = gprArgs.men

\* ------------------------------------------------------------------------
\* Properties of the assignment file under concurrent workers
\* ------------------------------------------------------------------------
WkSelected(key) ==
    select_version(WkManifest, WkRaceOf(key).distance, WkRaceOf(key).date)

\* every worker has completed a call and none is running
WkAllCompleted == \A w \in Workers : wkPc[w] = "idle" /\ wkRet[w] # NoneVal

\* C24: under every interleaving of two concurrent first-time
\* get_adjustments_for_race calls for one race, the steps of
\* _save_json_atomic on the shared temporary name included, both calls
\* return the same version, and once both have completed the persisted
\* document is whole, parses, and maps the race to that version.
C24_ConcurrentFirstCallsConverge ==
    /\ \A w \in Workers :
          wkRet[w] # NoneVal => wkRet[w] = AdjOk(WkSelected("IM703A"))
    /\ WkAllCompleted =>
          /\ wkFs.path # 0
          /\ WkParses(WkPathFile)
          /\ WkPathFile.h1.v["IM703A"] = Legacy(WkSelected("IM703A").id)

\* C24 witness: both calls found no assignment, so each ran the save while
\* the other had not yet replaced the file, and both have returned.
C24_Witness ==
    /\ WkAllCompleted
    /\ \A w \in Workers : wkKey[w] = "IM703A"
    /\ wkFs.tmp = 0
    /\ wkFs.path # 0

\* the per-distance entries the assignment file has held
WkToolEntries == { e \in wkPersisted : e[2].kind = "per_distance" }

\* C25: an assignment stored in the form {per_distance: {distance: id}} is
\* honoured: a call for the race returns that version id with its factor
\* table and leaves the stored entry as it is.
C25_PerDistanceHonoured ==
    \A e \in WkToolEntries :
        /\ \A w \in Workers :
              wkRet[w] # NoneVal /\ e[1] \in wkKeys =>
                 wkRet[w] = AdjOk(find_version(WkManifest,
                                               WkRaceOf(e[1]).distance, e[2].id))
        /\ wkFs.path # 0
        /\ WkParses(WkPathFile)
        /\ WkPathFile.h1.v[e[1]] = e[2]

\* C26: assignments are never deleted automatically: under every
\* interleaving of calls for different races by workers with their own
\* in-memory copy of the document, every assignment that has been persisted
\* is in the persisted document, with the same value, once all calls have
\* completed.
C26_PersistedAssignmentsKept ==
    WkAllCompleted =>
        \A e \in wkPersisted :
            /\ wkFs.path # 0
            /\ WkParses(WkPathFile)
            /\ WkPathFile.h1.v[e[1]] = e[2]

\* ------------------------------------------------------------------------
\* Properties of the finish-time filter
\* ------------------------------------------------------------------------
\* the records of the batch whose finish time is of the form H:M:S
PlrValidTimes == SelectSeq(plrIn, LAMBDA item : item.time.kind = "hms")

\* C27: a record whose finish time is invalid or missing (absent, null, not
\* a string, empty, not H:M:S) is dropped and the graded ranking of all the
\* other records is returned; no such record makes the batch an error or an
\* exception.
C27_BadTimeDropped ==
    plrOut # NoneVal => plrOut = process_live_results(PlrValidTimes)

\* ------------------------------------------------------------------------
\* Properties of the annotation of a race without an allocation
\* ------------------------------------------------------------------------
\* an annotate_slot_allocation call has just run from the state before the
\* step
AnnotateCallStep ==
    /\ annOut = NoneVal
    /\ annOut' # NoneVal

\* line 258 of the call of the step went on to compute_dynamic_slots, of
\* which a prerequisite failed
AnnComputeNotReady ==
    /\ dynRace.dynamic_slots = NoneVal
    /\ dynCall' # NoneVal
    /\ \/ StartUnknown \/ BeforeWindow \/ SlotsNotPositive \/ NoAgeGroups
       \/ CountUnobtainable

\* line 259: the allocation on the race has no entry for the gender
AnnNoEntryForGender ==
    /\ dynRace.dynamic_slots # NoneVal
    /\ annArgs'.gender \notin Genders

\* C28: under split-dynamic, when the race has no allocation and
\* compute_dynamic_slots is not ready, or the allocation has no entry for
\* the selected gender, annotate_slot_allocation returns the result list
\* with every entry as it was: no entry carries an ag_winner or
\* pool_qualifier flag, and nothing is raised.
C28_NotReadySkipsAnnotation ==
    [][(/\ AnnotateCallStep
        /\ resolve_slot_policy(annArgs'.race) = "split-dynamic"
        /\ (AnnComputeNotReady \/ AnnNoEntryForGender))
       => /\ annOut' = AnnRet(plrOut.v)
          /\ \A i \in 1..Len(plrOut.v) :
                "ag_winner" \notin DOMAIN annOut'.v[i]
                /\ "pool_qualifier" \notin DOMAIN annOut'.v[i]]_vars

\* C28 witness: before the end of the stabilization window a graded list of
\* two entries of a split-dynamic race without an allocation came back from
\* annotate_slot_allocation without flags.
C28_Witness ==
    /\ annArgs # NoneVal
    /\ resolve_slot_policy(annArgs.race) = "split-dynamic"
    /\ annArgs.race.dynamic_slots = NoneVal
    /\ dynCall # NoneVal
    /\ ~dynCall.asked
    /\ plrOut.kind = "ret"
    /\ Len(plrOut.v) = 2
    /\ annOut = AnnRet(plrOut.v)

\* C28 witness after the window: the men's start list gave no count.
C28_WitnessNoCount ==
    /\ annArgs # NoneVal
    /\ annArgs.race.dynamic_slots = NoneVal
    /\ dynCall # NoneVal
    /\ dynCall.asked
    /\ dynCall.men = NoneVal
    /\ plrOut.kind = "ret"
    /\ Len(plrOut.v) > 0
    /\ annOut = AnnRet(plrOut.v)

\* C28 witness of the missing entry: the race has an allocation, no gender
\* is selected, and the list came back without flags.
C28_WitnessNoGender ==
    /\ annArgs # NoneVal
    /\ annArgs.race.dynamic_slots # NoneVal
    /\ annArgs.gender \notin Genders
    /\ plrOut.kind = "ret"
    /\ Len(plrOut.v) > 0
    /\ annOut = AnnRet(plrOut.v)

\* ------------------------------------------------------------------------
\* Properties of the final window
\* ------------------------------------------------------------------------
\* a call of get_processed_results_cached by p starts with the step
CallStarts(p) == pc[p] = "idle" /\ pc'[p] # "idle"

\* the step is one of a call of p that goes on
CallRuns(p) == pc[p] # "idle" /\ pc'[p] # "idle"

\* the step reads or writes an entry of the final tier
TouchesFinal(p) ==
    \/ FinalRead(p)
    \/ /\ WriteOpen(p) \/ WriteDump(p)
       /\ \E f \in FinalPaths : files'[f] # files[f]

FinalEntryExists == \E f \in FinalPaths : files[f] # Absent

\* the time is at or past earliestStartTime + FINAL_CACHE_DELAY_HOURS * 3600
AtThreshold ==
    Now >= race.earliestStartTime + FINAL_CACHE_DELAY_HOURS * 3600

\* the same, of a race whose start time is known
AtThresholdOfKnownStart == race.earliestStartTime > 0 /\ AtThreshold

\* C29: a call finds the final window reached exactly when now >=
\* earliestStartTime + FINAL_CACHE_DELAY_HOURS * 3600; a final cache entry
\* exists only if a call was made at a time at or past that threshold, and
\* a call made before it neither reads nor writes the final entry.
C29_FinalWindowAtThreshold ==
    [][\A p \in Procs :
        /\ CallStarts(p) => (stage'[p] = "final" <=> AtThreshold)
        /\ CallRuns(p) => stage'[p] = stage[p]
        /\ TouchesFinal(p) => stage[p] = "final"
        /\ FinalEntryExists' => AtThreshold']_vars

\* C29 as the code has it: the final window is reached exactly when
\* earliestStartTime is known (> 0) and now >= earliestStartTime +
\* FINAL_CACHE_DELAY_HOURS * 3600; a final cache entry exists only if a call
\* was made at such a time, and any other call neither reads nor writes the
\* final entry.
C29_FinalWindowOfKnownStart ==
    [][\A p \in Procs :
        /\ CallStarts(p) => (stage'[p] = "final" <=> AtThresholdOfKnownStart)
        /\ CallRuns(p) => stage'[p] = stage[p]
        /\ TouchesFinal(p) => stage[p] = "final"
        /\ FinalEntryExists' => AtThresholdOfKnownStart']_vars

\* C29 witness: a call made exactly at the threshold has written the final
\* entry, and there is no in-progress entry it could have written.
C29_Witness ==
    /\ race.earliestStartTime > 0
    /\ \E p \in Procs :
        /\ pc[p] = "done"
        /\ stage[p] = "final"
        /\ writes[p] = 2
        /\ files[final_path(p)].kind = "doc"
        /\ files[final_path(p)].mtime = FinalThreshold(race)
        /\ files[inprog_path(p)] = Absent

\* C29 witness of a call that straddles the threshold: made before it, it
\* writes the in-progress entry after it and there is no final entry.
C29_WitnessStraddle ==
    /\ race.earliestStartTime > 0
    /\ Now >= FinalThreshold(race)
    /\ ~FinalEntryExists
    /\ \E p \in Procs :
        /\ pc[p] = "done"
        /\ stage[p] = "in_progress"
        /\ files[inprog_path(p)].kind = "doc"
        /\ files[inprog_path(p)].mtime >= FinalThreshold(race)

\* ------------------------------------------------------------------------
\* Liveness of the dynamic allocation
\* ------------------------------------------------------------------------
\* a split-dynamic race with a positive slots total, an age-group category,
\* a known start time and start lists
DynEligible ==
    /\ resolve_slot_policy(dynRace) = "split-dynamic"
    /\ TotalSlots(dynRace) > 0
    /\ dynRace.ag_men > 0 \/ dynRace.ag_women > 0
    /\ dynRace.earliestStartTime > 0
    /\ dynRace.has_start_urls

\* a call of the step that asks upstream gets a count for both genders, with
\* a positive sum
GoodFeedStep ==
    (dynOut = NoneVal /\ dynOut' # NoneVal /\ dynCall'.asked)
        => /\ dynCall'.men # NoneVal
           /\ dynCall'.women # NoneVal
           /\ dynCall'.men.n + dynCall'.women.n > 0

\* an allocation has come about: a call returned one, or at least left one
\* on the race object before its persistence step
DynAllocated ==
    \/ dynRace.dynamic_slots # NoneVal
    \/ dynOut.kind = "ret" /\ dynOut.v.kind = "alloc"

\* C30: for a split-dynamic race with a positive slots total and age-group
\* categories, if from some point on (after the stabilization window) the
\* upstream feed returns starter counts for both genders with a positive
\* sum, then repeated compute_dynamic_slots calls (of one running process)
\* eventually yield an allocation, whatever starter counts an earlier call
\* obtained and stored in started_counts.
C30_EventuallyAllocated ==
    (/\ DynEligible
     /\ <>[][GoodFeedStep]_vars
     /\ <>[][~DynRestart]_vars) => <>DynAllocated

====
